---- MODULE Spec2Model ----
(***************************************************************************)
(* TransDrop: peer session and chunked-transfer protocol.                  *)
(*                                                                         *)
(* SpecTransfer models frontend/src/hooks/useFileTransfer.ts: one sender   *)
(* running sendFile, the ordered peer channel, and one receiver running    *)
(* handleFileMetadata / handleFileChunk and the salvage timers.            *)
(*                                                                         *)
(* SpecSession models backend/src/server.ts (the relay) together with two  *)
(* endpoints running frontend/src/hooks/useWebRTC.ts.                      *)
(***************************************************************************)
EXTENDS Integers, Sequences, FiniteSets, TLC

(***************************************************************************)
(* Program constants                                                       *)
(***************************************************************************)
CHUNK_SIZE == 16384

sizeTolerance == 1024

(***************************************************************************)
(* Bounds of the model                                                     *)
(***************************************************************************)
\* the largest number of full chunks of a file
MaxFullChunks == 7

\* the number of sendFile calls the sender makes
MaxTransfers == 2

\* the number of chunks of all sendFile calls together
MaxChunks == 10

\* lengths of the trailing partial chunk: none, within the size tolerance,
\* just above the size tolerance
Remainders == {0, 1000, 1100}

FullCounts == {0, 1, MaxFullChunks}

Sizes == {k * CHUNK_SIZE + r : k \in FullCounts, r \in Remainders}

FileNames == {"a.txt", "b.txt"}

FileTypes == {"text/plain"}

Files == [name : FileNames, size : Sizes, type : FileTypes]

\* the display name of the sending endpoint
deviceName == "Swift Moth"

\* ---- session model ----
\* the socket ids the relay hands out, in order of connection
MaxSockets == 3

\* calls of the hook's joinRoom / leaveRoom by the application
MaxApiCalls == 2

\* transports that close on their own
MaxCloses == 1

\* wire messages handled by the relay on its own
MaxWire == 4

Ids == 1..MaxSockets

Endpoints == {"A", "B"}

NameOf(e) == IF e = "A" THEN "Swift Moth" ELSE "Bold Tiger"

\* the rendezvous id both endpoints use
TheRoom == "482913"

VARIABLES
    \* ---- sender (sendFile) ----
    xfers,            \* the sendFile calls so far: [file, status, sent]
    sendLog,          \* the sendData calls of sendFile, in order, with their results
    sendErrors,       \* per sendFile call: the error it rejected with
    \* ---- peer channel ----
    channel,          \* messages sent and not yet delivered, in send order
    linkUp,           \* the transport is connected
    early,            \* per transfer: chunks delivered before their metadata
    \* ---- receiver (useFileTransfer refs) ----
    fileChunksRef,    \* Map<fileName, FileChunkData>, in insertion order
    pendingChunksRef, \* chunks that arrived before metadata
    fileTimeoutRefs,  \* Map<fileName, timeout>
    received,         \* the onFileReceived calls so far
    \* ---- relay (server.ts) ----
    rooms,               \* Map<roomId, Set<socketId>>
    deviceInfo,          \* Map<socketId, {name, roomId}>
    deviceSubscriptions, \* Map<deviceName, Set<socketId>>
    sockets,             \* io.sockets.sockets: the live connections
    adapter,             \* socket.io rooms: Map<room, Set<socketId>>
    emitted,             \* per socket id: what the last relay handler sent it
    handled,             \* wire messages the relay on its own has handled
    \* ---- pairing (utils/pairingHistory.ts) ----
    pairInput,           \* <<deviceName1, deviceName2>>, as UTF-16 code units
    pairCode,            \* generatePairingRoomId of the pair, in each order
    localStorage,        \* the array stored under STORAGE_KEY
    clock,               \* the last value Date.now() returned
    storeCalls,          \* savePairing / removePairing calls made
    \* ---- room codes (utils/roomCode.ts) ----
    roomCode,            \* the code at hand: [text, by]
    codeValid,           \* what isValidRoomCode(code) returned for it
    \* ---- application (App.tsx) ----
    textSend,            \* the handleSendText call under way or returned
    progress,            \* the onProgress calls made by useFileTransfer
    currentRoomId,       \* App's currentRoomId state, as the code's digits
    joinRoomCalls,       \* the joinRoom(roomId) calls App made: [roomId, by]
    sockOwner,           \* which endpoint each socket id was given to
    inbox,               \* per socket id: relay -> client events in flight
    outbox,              \* per socket id: client -> relay messages in flight
    \* ---- endpoints (useWebRTC refs) ----
    socketRef,           \* per endpoint: [id, connected]
    peersRef,            \* per endpoint: Map<peerId, Peer.Instance>
    connectedPeersRef,   \* per endpoint: Set<peerId>
    notifiedPeersRef,    \* per endpoint: Set<peerId>
    peerDeviceNamesRef,  \* per endpoint: Map<peerId, deviceName>
    \* ---- history ----
    notifyCount,         \* per endpoint and id: onPeerConnected calls since
                         \* the last onPeerDisconnected for that id
    joinedBefore,        \* <<x, c>>: x was a member when c's join was handled
    apiCalls,            \* joinRoom / leaveRoom calls made
    closes,              \* transports that closed on their own
    notified             \* the onPeerConnected / onPeerDisconnected calls of the
                         \* last step, in call order (where they are observed)

transferVars == <<xfers, sendLog, sendErrors, channel, linkUp, early,
                  fileChunksRef, pendingChunksRef, fileTimeoutRefs, received>>

relayVars == <<rooms, deviceInfo, deviceSubscriptions, sockets, adapter>>

netVars == <<sockOwner, inbox, outbox>>

hookVars == <<socketRef, peersRef, connectedPeersRef, notifiedPeersRef,
              peerDeviceNamesRef>>

historyVars == <<notifyCount, joinedBefore, apiCalls, closes>>

wireVars == <<emitted, handled>>

eventVars == <<notified>>

storeVars == <<localStorage, clock, storeCalls>>

codeVars == <<roomCode, codeValid>>

roomVars == <<currentRoomId, joinRoomCalls>>

appVars == <<textSend, progress, roomVars>>

pairingVars == <<pairInput, pairCode, storeVars, codeVars, appVars>>

sessionVars == <<relayVars, netVars, hookVars, historyVars, wireVars, pairingVars,
                 eventVars>>

vars == <<transferVars, sessionVars>>

senderVars == <<xfers, sendLog, sendErrors>>
receiverVars == <<fileChunksRef, pendingChunksRef, fileTimeoutRefs, received>>

(***************************************************************************)
(* Chunking (sendFile)                                                     *)
(***************************************************************************)
Min(a, b) == IF a < b THEN a ELSE b

Abs(a) == IF a < 0 THEN 0 - a ELSE a

\* Math.ceil(byteLength / CHUNK_SIZE)
totalChunksOf(size) == (size + CHUNK_SIZE - 1) \div CHUNK_SIZE

\* arrayBuffer.slice(start, end) of transfer f, chunkIndex i (from 0): the
\* slice is identified by its transfer and index and carries its byteLength
ChunkOf(f, size, i) ==
    LET start == i * CHUNK_SIZE
        end   == Min(start + CHUNK_SIZE, size)
    IN  [f |-> f, i |-> i, byteLength |-> end - start]

\* the original buffer of transfer f as the sequence of its slices
BufferOf(f, size) == [j \in 1..totalChunksOf(size) |-> ChunkOf(f, size, j - 1)]

MetadataOf(f, file) ==
    [type        |-> "file-metadata",
     f           |-> f,
     fileName    |-> file.name,
     fileSize    |-> file.size,
     fileType    |-> file.type,
     totalChunks |-> totalChunksOf(file.size),
     from        |-> deviceName]

(***************************************************************************)
(* Receiver: Map helpers (a JS Map keeps insertion order; set() on an      *)
(* existing key keeps the key's position)                                  *)
(***************************************************************************)
MapHas(m, name) == \E i \in 1..Len(m) : m[i].metadata.fileName = name

MapGet(m, name) == m[CHOOSE i \in 1..Len(m) : m[i].metadata.fileName = name]

MapSet(m, name, entry) ==
    IF MapHas(m, name)
    THEN [i \in 1..Len(m) |-> IF m[i].metadata.fileName = name THEN entry ELSE m[i]]
    ELSE Append(m, entry)

MapDelete(m, name) == SelectSeq(m, LAMBDA e : e.metadata.fileName # name)

RECURSIVE SumBytes(_)
SumBytes(chunks) ==
    IF chunks = <<>> THEN 0
    ELSE chunks[1].byteLength + SumBytes(Tail(chunks))

NoTimer == [state |-> "none", sid |-> 0, len |-> 0]

\* a hand-over that ignores the name declared in the metadata
ReceivedFileUnknownSender(fd, senderDeviceName, how) ==
    [name        |-> fd.metadata.fileName,
     size        |-> fd.metadata.fileSize,
     type        |-> fd.metadata.fileType,
     blob        |-> fd.chunks,
     from        |-> "Unknown",
     sid         |-> fd.sid,
     how         |-> how,
     receivedSize |-> fd.receivedSize,
     totalChunks |-> fd.metadata.totalChunks]

\* the object handed to onFileReceived; sid, how, receivedSize and
\* totalChunks record which session completed and how
ReceivedFile(fd, senderDeviceName, how) ==
    [name        |-> fd.metadata.fileName,
     size        |-> fd.metadata.fileSize,
     type        |-> fd.metadata.fileType,
     blob        |-> fd.chunks,
     from        |-> IF fd.metadata.from # "" THEN fd.metadata.from
                     ELSE IF senderDeviceName # "" THEN senderDeviceName
                     ELSE "Unknown",
     sid         |-> fd.sid,
     how         |-> how,
     receivedSize |-> fd.receivedSize,
     totalChunks |-> fd.metadata.totalChunks]

\* the receiver's refs as one record
Receiver == [fc  |-> fileChunksRef,
             pc  |-> pendingChunksRef,
             ft  |-> fileTimeoutRefs,
             out |-> received]

(***************************************************************************)
(* handleFileMetadata                                                      *)
(***************************************************************************)
handleFileMetadata(R, metadata) ==
    LET fileEntry == [chunks       |-> R.pc,
                      metadata     |-> metadata,
                      receivedSize |-> SumBytes(R.pc),
                      sid          |-> metadata.f]
    IN  [R EXCEPT !.fc = MapSet(@, metadata.fileName, fileEntry),
                  !.pc = <<>>]

(***************************************************************************)
(* handleFileChunk                                                         *)
(***************************************************************************)
\* the completion check made after a chunk was appended
allChunksReceived(fd) == Len(fd.chunks) >= fd.metadata.totalChunks

sizeMatch(fd) ==
    \/ fd.receivedSize >= fd.metadata.fileSize
    \/ Abs(fd.receivedSize - fd.metadata.fileSize) <= sizeTolerance

CompleteNow(fd) == allChunksReceived(fd) \/ sizeMatch(fd)

\* the entry a chunk is attached to: the last entry of the Map, if it is
\* still short of its declared chunk count
HasOpenEntry(fc) ==
    /\ Len(fc) > 0
    /\ Len(fc[Len(fc)].chunks) < fc[Len(fc)].metadata.totalChunks

handleFileChunk(R, chunk, senderDeviceName) ==
    IF HasOpenEntry(R.fc)
    THEN LET n    == Len(R.fc)
             old  == R.fc[n]
             fd   == [old EXCEPT !.chunks = Append(@, chunk),
                                 !.receivedSize = @ + chunk.byteLength]
             name == fd.metadata.fileName
             fc1  == [R.fc EXCEPT ![n] = fd]
             ft1  == [R.ft EXCEPT ![name] = NoTimer]
         IN  IF CompleteNow(fd)
             THEN [R EXCEPT !.fc  = MapDelete(fc1, name),
                            !.ft  = ft1,
                            !.out = Append(@, ReceivedFile(fd, senderDeviceName, "immediate"))]
             ELSE [R EXCEPT !.fc = fc1,
                            !.ft = [ft1 EXCEPT ![name] =
                                      [state |-> "armed", sid |-> fd.sid,
                                       len |-> Len(fd.chunks)]]]
    ELSE [R EXCEPT !.pc = Append(@, chunk)]

(***************************************************************************)
(* The salvage timeout callback armed by handleFileChunk.  The callback    *)
(* closes over fileData; every append to that object clears the timer, so  *)
(* fileData.chunks.length at firing time is the length at arming (len).    *)
(***************************************************************************)
TimeoutCompletes(R, name) ==
    /\ MapHas(R.fc, name)
    /\ Len(MapGet(R.fc, name).chunks) = R.ft[name].len

\* a salvage callback that hands the file over but forgets to delete the entry
salvageTimeoutKeepsEntry(R, name, senderDeviceName) ==
    IF TimeoutCompletes(R, name)
    THEN LET cur == MapGet(R.fc, name)
         IN  [R EXCEPT !.ft  = [@ EXCEPT ![name] = NoTimer],
                       !.out = Append(@, ReceivedFile(cur, senderDeviceName, "salvage"))]
    ELSE [R EXCEPT !.ft = [@ EXCEPT ![name].state = "fired"]]

salvageTimeout(R, name, senderDeviceName) ==
    IF TimeoutCompletes(R, name)
    THEN LET cur == MapGet(R.fc, name)
         IN  [R EXCEPT !.fc  = MapDelete(@, name),
                       !.ft  = [@ EXCEPT ![name] = NoTimer],
                       !.out = Append(@, ReceivedFile(cur, senderDeviceName, "salvage"))]
    ELSE [R EXCEPT !.ft = [@ EXCEPT ![name].state = "fired"]]

(***************************************************************************)
(* Initial state                                                           *)
(***************************************************************************)
TransferInit ==
    /\ xfers = <<>>
    /\ sendLog = <<>>
    /\ sendErrors = <<>>
    /\ channel = <<>>
    /\ linkUp = TRUE
    /\ early = [f \in 1..MaxTransfers |-> 0]
    /\ fileChunksRef = <<>>
    /\ pendingChunksRef = <<>>
    /\ fileTimeoutRefs = [n \in FileNames |-> NoTimer]
    /\ received = <<>>

SetReceiver(R) ==
    /\ fileChunksRef' = R.fc
    /\ pendingChunksRef' = R.pc
    /\ fileTimeoutRefs' = R.ft
    /\ received' = R.out

(***************************************************************************)
(* Sender: sendFile(peerId, file)                                          *)
(***************************************************************************)
\* sendData(peerId, data): true iff the peer exists and is connected and
\* peer.send does not throw
sendData(sendThrows) == linkUp /\ ~sendThrows

Active == Len(xfers) > 0 /\ xfers[Len(xfers)].status \in {"settle", "sending"}

RECURSIVE ChunksOfAll(_)
ChunksOfAll(xs) ==
    IF xs = <<>> THEN 0
    ELSE totalChunksOf(xs[1].file.size) + ChunksOfAll(Tail(xs))

\* a sendData call of transfer f: the metadata (chunkIndex -1) or a chunk
SendCall(f, chunkIndex, ok) == [f |-> f, chunkIndex |-> chunkIndex, ok |-> ok]

NoError == "none"

\* new Error('Failed to send file metadata. Please check connection.')
MetadataError == "Failed to send file metadata. Please check connection."

\* new Error(`Failed to send chunk ${chunkIndex + 1}/${totalChunks}`)
ChunkError(chunkIndex, totalChunks) ==
    [message |-> "Failed to send chunk", chunk |-> chunkIndex + 1, of |-> totalChunks]

\* reader.onload that goes on to the chunk loop after a failed metadata send
SendFileStartNoAbort(file, sendThrows) ==
    /\ ~Active
    /\ Len(xfers) < MaxTransfers
    /\ ChunksOfAll(xfers) + totalChunksOf(file.size) <= MaxChunks
    /\ LET f == Len(xfers) + 1
       IN  /\ sendLog' = Append(sendLog, SendCall(f, -1, sendData(sendThrows)))
           /\ xfers' = Append(xfers, [file |-> file, status |-> "settle", sent |-> 0])
           /\ sendErrors' = Append(sendErrors, NoError)
           /\ IF sendData(sendThrows)
              THEN channel' = Append(channel, MetadataOf(f, file))
              ELSE UNCHANGED channel
    /\ UNCHANGED <<linkUp, early, receiverVars>>
    /\ UNCHANGED sessionVars

\* reader.onload: metadata is sent; a failed send rejects before any chunk
SendFileStart(file, sendThrows) ==
    /\ ~Active
    /\ Len(xfers) < MaxTransfers
    /\ ChunksOfAll(xfers) + totalChunksOf(file.size) <= MaxChunks
    /\ LET f == Len(xfers) + 1
       IN  /\ sendLog' = Append(sendLog, SendCall(f, -1, sendData(sendThrows)))
           /\ IF sendData(sendThrows)
              THEN /\ xfers' = Append(xfers, [file |-> file, status |-> "settle", sent |-> 0])
                   /\ sendErrors' = Append(sendErrors, NoError)
                   /\ channel' = Append(channel, MetadataOf(f, file))
              ELSE /\ xfers' = Append(xfers, [file |-> file, status |-> "rejectedMetadata", sent |-> 0])
                   /\ sendErrors' = Append(sendErrors, MetadataError)
                   /\ UNCHANGED channel
    /\ UNCHANGED <<linkUp, early, receiverVars>>
    /\ UNCHANGED sessionVars

\* a chunk loop that goes on to the next chunk after a failed send
SendFileStepNoAbort(sendThrows) ==
    /\ Active
    /\ LET f  == Len(xfers)
           x  == xfers[f]
           n  == totalChunksOf(x.file.size)
       IN  IF x.sent >= n
           THEN /\ xfers' = [xfers EXCEPT ![f].status = "resolved"]
                /\ UNCHANGED <<channel, sendLog, sendErrors>>
           ELSE /\ sendLog' = Append(sendLog, SendCall(f, x.sent, sendData(sendThrows)))
                /\ xfers' = [xfers EXCEPT ![f].status = "sending", ![f].sent = @ + 1]
                /\ UNCHANGED sendErrors
                /\ IF sendData(sendThrows)
                   THEN channel' = Append(channel, ChunkOf(f, x.file.size, x.sent))
                   ELSE UNCHANGED channel
    /\ UNCHANGED <<linkUp, early, receiverVars>>
    /\ UNCHANGED sessionVars

\* one turn of the chunk loop (after the settling delay or the inter-chunk
\* delay): send the next chunk, or resolve when chunkIndex = totalChunks
SendFileStep(sendThrows) ==
    /\ Active
    /\ LET f  == Len(xfers)
           x  == xfers[f]
           n  == totalChunksOf(x.file.size)
       IN  IF x.sent >= n
           THEN /\ xfers' = [xfers EXCEPT ![f].status = "resolved"]
                /\ UNCHANGED <<channel, sendLog, sendErrors>>
           ELSE /\ sendLog' = Append(sendLog, SendCall(f, x.sent, sendData(sendThrows)))
                /\ IF sendData(sendThrows)
                   THEN /\ xfers' = [xfers EXCEPT ![f].status = "sending", ![f].sent = @ + 1]
                        /\ channel' = Append(channel, ChunkOf(f, x.file.size, x.sent))
                        /\ UNCHANGED sendErrors
                   ELSE /\ xfers' = [xfers EXCEPT ![f].status = "rejectedChunk"]
                        /\ sendErrors' = [sendErrors EXCEPT ![f] = ChunkError(x.sent, n)]
                        /\ UNCHANGED channel
    /\ UNCHANGED <<linkUp, early, receiverVars>>
    /\ UNCHANGED sessionVars

(***************************************************************************)
(* Peer channel: peer.on('data') -> onDataReceived -> handleDataReceived   *)
(***************************************************************************)
IsMetadata(m) == "type" \in DOMAIN m

\* the next message in send order is delivered
Deliver ==
    /\ channel # <<>>
    /\ LET m == Head(channel)
       IN  IF IsMetadata(m)
           THEN SetReceiver(handleFileMetadata(Receiver, m))
           ELSE SetReceiver(handleFileChunk(Receiver, m, deviceName))
    /\ channel' = Tail(channel)
    /\ UNCHANGED <<senderVars, linkUp, early>>
    /\ UNCHANGED sessionVars

\* a chunk outruns the metadata of its own transfer (the arrival race the
\* pending buffer exists for)
DeliverChunkBeforeMetadata ==
    /\ Len(channel) >= 2
    /\ IsMetadata(channel[1])
    /\ ~IsMetadata(channel[2])
    /\ channel[2].f = channel[1].f
    /\ SetReceiver(handleFileChunk(Receiver, channel[2], deviceName))
    /\ channel' = <<channel[1]>> \o SubSeq(channel, 3, Len(channel))
    /\ early' = [early EXCEPT ![channel[1].f] = @ + 1]
    /\ UNCHANGED <<senderVars, linkUp>>
    /\ UNCHANGED sessionVars

\* a salvage timeout fires
TimeoutFires(name) ==
    /\ fileTimeoutRefs[name].state = "armed"
    /\ SetReceiver(salvageTimeout(Receiver, name, deviceName))
    /\ UNCHANGED <<senderVars, channel, linkUp, early>>
    /\ UNCHANGED sessionVars

\* peer.on('close'): the transport closes; what was in flight is lost.  The
\* close handler and onPeerDisconnected touch no file-transfer state.
PeerClose ==
    /\ linkUp
    /\ linkUp' = FALSE
    /\ channel' = <<>>
    /\ UNCHANGED <<senderVars, early, receiverVars>>
    /\ UNCHANGED sessionVars

(***************************************************************************)
(* Relay: backend/src/server.ts                                            *)
(***************************************************************************)
\* Map.set / Map.delete on a map with a growing set of keys
Put(m, k, v) == [x \in (DOMAIN m) \cup {k} |-> IF x = k THEN v ELSE m[x]]

Drop(m, k) == [x \in (DOMAIN m) \ {k} |-> m[x]]

EmptyMap == [x \in {} |-> {}]

\* map.get(k) of a map of sets, undefined read as the empty set
SetAt(m, k) == IF k \in DOMAIN m THEN m[k] ELSE {}

\* Set.delete(c) on every set of a map, entries left empty deleted
Without(m, c) == [k \in {x \in DOMAIN m : m[x] \ {c} # {}} |-> m[k] \ {c}]

\* socket.id as a room name: socket.io puts every socket in the room named
\* by its own id
SidOf(i) == ToString(i)

Msg(t, id, name, roomId, peers) ==
    [t |-> t, id |-> id, name |-> name, roomId |-> roomId, peers |-> peers,
     payload |-> ""]

NoOutput == [t \in Ids |-> <<>>]

\* the relay's maps as one record; adapter is socket.io's room membership
\* (socket.join / socket.leave), which socket.to(room) reads
Relay == [rooms       |-> rooms,
          deviceInfo  |-> deviceInfo,
          subs        |-> deviceSubscriptions,
          sockets     |-> sockets,
          adapter     |-> adapter]

\* deviceInfo.get(id)?.name
InfoName(info, id) == IF id \in DOMAIN info THEN info[id].name ELSE ""

\* socket.to(room): the sockets in the room, the sender excepted
BroadcastTo(S, c, room) == SetAt(S.adapter, room) \ {c}

\* socket.on('join-room') that sends no 'peer-joined'
relayJoinSilent(S, c, roomId, dn) ==
    LET rooms1 == Put(S.rooms, roomId, SetAt(S.rooms, roomId) \cup {c})
        info1  == IF dn # ""
                  THEN Put(S.deviceInfo, c, [name |-> dn, roomId |-> roomId])
                  ELSE S.deviceInfo
        S1     == [S EXCEPT !.rooms = rooms1, !.deviceInfo = info1,
                            !.adapter = Put(@, roomId, SetAt(@, roomId) \cup {c})]
        peersWithInfo ==
            {[peerId |-> q, deviceName |-> InfoName(info1, q)] :
                q \in rooms1[roomId] \ {c}}
    IN  [st |-> S1,
         to |-> [t \in Ids |->
                   IF t = c
                   THEN <<Msg("peers", 0, "", "", peersWithInfo)>>
                   ELSE <<>>]]

\* socket.on('join-room') that sends 'room-join-request' to every live
\* connection
relayJoinBroadcast(S, c, roomId, dn) ==
    LET rooms1 == Put(S.rooms, roomId, SetAt(S.rooms, roomId) \cup {c})
        info1  == IF dn # ""
                  THEN Put(S.deviceInfo, c, [name |-> dn, roomId |-> roomId])
                  ELSE S.deviceInfo
        S1     == [S EXCEPT !.rooms = rooms1, !.deviceInfo = info1,
                            !.adapter = Put(@, roomId, SetAt(@, roomId) \cup {c})]
        others == BroadcastTo(S1, c, roomId)
        interested == IF dn # "" THEN S.sockets \ {c} ELSE {}
        peersWithInfo ==
            {[peerId |-> q, deviceName |-> InfoName(info1, q)] :
                q \in rooms1[roomId] \ {c}}
    IN  [st |-> S1,
         to |-> [t \in Ids |->
                   (IF t \in others
                    THEN <<Msg("peer-joined", c, InfoName(info1, c), "", {})>>
                    ELSE <<>>)
                   \o (IF t \in interested
                       THEN <<Msg("room-join-request", c, dn, roomId, {})>>
                       ELSE <<>>)
                   \o (IF t = c
                       THEN <<Msg("peers", 0, "", "", peersWithInfo)>>
                       ELSE <<>>)]]

\* socket.on('join-room')
relayJoin(S, c, roomId, dn) ==
    LET rooms1 == Put(S.rooms, roomId, SetAt(S.rooms, roomId) \cup {c})
        info1  == IF dn # ""
                  THEN Put(S.deviceInfo, c, [name |-> dn, roomId |-> roomId])
                  ELSE S.deviceInfo
        S1     == [S EXCEPT !.rooms = rooms1, !.deviceInfo = info1,
                            !.adapter = Put(@, roomId, SetAt(@, roomId) \cup {c})]
        others == BroadcastTo(S1, c, roomId)
        interested ==
            IF dn # ""
            THEN {t \in SetAt(S.subs, dn) : t \in S.sockets /\ t # c}
            ELSE {}
        peersWithInfo ==
            {[peerId |-> q, deviceName |-> InfoName(info1, q)] :
                q \in rooms1[roomId] \ {c}}
    IN  [st |-> S1,
         to |-> [t \in Ids |->
                   (IF t \in others
                    THEN <<Msg("peer-joined", c, InfoName(info1, c), "", {})>>
                    ELSE <<>>)
                   \o (IF t \in interested
                       THEN <<Msg("room-join-request", c, dn, roomId, {})>>
                       ELSE <<>>)
                   \o (IF t = c
                       THEN <<Msg("peers", 0, "", "", peersWithInfo)>>
                       ELSE <<>>)]]

\* socket.on('leave-room') that keeps a room it has emptied
relayLeaveKeepsEmpty(S, c, roomId) ==
    LET has    == roomId \in DOMAIN S.rooms
        left   == SetAt(S.rooms, roomId) \ {c}
        rooms1 == IF ~has THEN S.rooms ELSE Put(S.rooms, roomId, left)
        aleft  == SetAt(S.adapter, roomId) \ {c}
        S1     == [S EXCEPT !.rooms = rooms1,
                            !.adapter = IF aleft = {} THEN Drop(@, roomId)
                                        ELSE Put(@, roomId, aleft)]
    IN  [st |-> S1,
         to |-> [t \in Ids |->
                   IF t \in BroadcastTo(S1, c, roomId)
                   THEN <<Msg("peer-left", c, "", "", {})>>
                   ELSE <<>>]]

\* socket.on('leave-room')
relayLeave(S, c, roomId) ==
    LET has    == roomId \in DOMAIN S.rooms
        left   == SetAt(S.rooms, roomId) \ {c}
        rooms1 == IF ~has THEN S.rooms
                  ELSE IF left = {} THEN Drop(S.rooms, roomId)
                  ELSE Put(S.rooms, roomId, left)
        aleft  == SetAt(S.adapter, roomId) \ {c}
        S1     == [S EXCEPT !.rooms = rooms1,
                            !.adapter = IF aleft = {} THEN Drop(@, roomId)
                                        ELSE Put(@, roomId, aleft)]
    IN  [st |-> S1,
         to |-> [t \in Ids |->
                   IF t \in BroadcastTo(S1, c, roomId)
                   THEN <<Msg("peer-left", c, "", "", {})>>
                   ELSE <<>>]]

\* socket.on('offer'), socket.on('answer'), socket.on('ice-candidate'):
\* socket.to(data.target).emit(kind, {payload, from, deviceName?})
relayHandshake(S, c, kind, target, dn, payload) ==
    [st |-> S,
     to |-> [t \in Ids |->
               IF t \in BroadcastTo(S, c, target)
               THEN <<[Msg(kind, c,
                           IF kind # "offer" THEN ""
                           ELSE IF dn # "" THEN dn
                           ELSE InfoName(S.deviceInfo, c),
                           "", {}) EXCEPT !.payload = payload]>>
               ELSE <<>>]]

relayOffer(S, c, target, dn) == relayHandshake(S, c, "offer", target, dn, "")

relayAnswer(S, c, target) == relayHandshake(S, c, "answer", target, "", "")

\* socket.on('subscribe-devices')
relaySubscribe(S, c, deviceNames) ==
    [st |-> [S EXCEPT !.subs =
               [n \in (DOMAIN S.subs) \cup deviceNames |->
                  IF n \in deviceNames THEN SetAt(S.subs, n) \cup {c}
                  ELSE S.subs[n]]],
     to |-> NoOutput]

\* socket.on('unsubscribe-devices')
relayUnsubscribe(S, c, deviceNames) ==
    [st |-> [S EXCEPT !.subs =
               [n \in {x \in DOMAIN S.subs :
                          x \notin deviceNames \/ S.subs[x] \ {c} # {}} |->
                  IF n \in deviceNames THEN S.subs[n] \ {c} ELSE S.subs[n]]],
     to |-> NoOutput]

\* socket.on('disconnect') that leaves the rooms map alone
relayDisconnectKeepsRooms(S, c) ==
    [st |-> [S EXCEPT !.deviceInfo = Drop(S.deviceInfo, c),
                      !.subs = Without(S.subs, c),
                      !.sockets = S.sockets \ {c},
                      !.adapter = Without(S.adapter, c)],
     to |-> NoOutput]

\* socket.on('disconnect'); the socket has left its socket.io rooms when the
\* handler runs
relayDisconnect(S, c) ==
    LET mine == {r \in DOMAIN S.rooms : c \in S.rooms[r]}
        S1   == [rooms      |-> Without(S.rooms, c),
                 deviceInfo |-> Drop(S.deviceInfo, c),
                 subs       |-> Without(S.subs, c),
                 sockets    |-> S.sockets \ {c},
                 adapter    |-> Without(S.adapter, c)]
    IN  [st |-> S1,
         to |-> [t \in Ids |->
                   [i \in 1..Cardinality({r \in mine : t \in BroadcastTo(S1, c, r)})
                      |-> Msg("peer-left", c, "", "", {})]]]

SetRelay(S) ==
    /\ rooms' = S.rooms
    /\ deviceInfo' = S.deviceInfo
    /\ deviceSubscriptions' = S.subs
    /\ sockets' = S.sockets
    /\ adapter' = S.adapter

\* a socket whose client end is connected; what the relay emits to any other
\* socket is never handled by anyone
Reachable(t) == \E e \in Endpoints : socketRef[e] = [id |-> t, connected |-> TRUE]

Emit(to) ==
    inbox' = [t \in Ids |-> IF Reachable(t) THEN inbox[t] \o to[t] ELSE inbox[t]]

(***************************************************************************)
(* Endpoint: frontend/src/hooks/useWebRTC.ts                               *)
(***************************************************************************)
NoPeer == [exists |-> FALSE, initiator |-> FALSE, stage |-> "none"]

\* new Peer({initiator}) stored in peersRef, unless one exists for peerId
createPeerFlipped(P, peerId, initiator) ==
    IF P[peerId].exists THEN P
    ELSE [P EXCEPT ![peerId] =
            [exists |-> TRUE, initiator |-> ~initiator, stage |-> "new"]]

createPeer(P, peerId, initiator) ==
    IF P[peerId].exists THEN P
    ELSE [P EXCEPT ![peerId] =
            [exists |-> TRUE, initiator |-> initiator, stage |-> "new"]]

Bump(n) == IF n < 2 THEN n + 1 ELSE n

\* what the application hands to sendData: a file chunk, or a metadata or
\* text message object
Payloads == {"ArrayBuffer", "json"}

\* sendData(peerId, data) without the connectedPeersRef test
hookSendDataAnyPeer(P, Cn, peerId, data, sendThrows) ==
    IF P[peerId].exists
    THEN IF sendThrows THEN "false" ELSE "true"
    ELSE "false"

\* sendData(peerId, data) on the refs P = peersRef and Cn = connectedPeersRef
\* of one endpoint; sendThrows says whether peer.send throws
hookSendData(P, Cn, peerId, data, sendThrows) ==
    IF P[peerId].exists /\ peerId \in Cn
    THEN IF sendThrows THEN "false" ELSE "true"
    ELSE "false"

\* callbacksRef.current.onPeerConnected?.(peerId, deviceName) at endpoint e;
\* deviceName "" stands for undefined
PeerConnectedCall(e, peerId, name) ==
    [e |-> e, call |-> "onPeerConnected", peerId |-> peerId, deviceName |-> name]

\* callbacksRef.current.onPeerDisconnected?.(peerId) at endpoint e
PeerDisconnectedCall(e, peerId) ==
    [e |-> e, call |-> "onPeerDisconnected", peerId |-> peerId, deviceName |-> ""]

\* the ids of a set in ascending order
RECURSIVE InOrder(_)
InOrder(S) ==
    IF S = {} THEN <<>>
    ELSE LET x == CHOOSE x \in S : \A y \in S : x <= y
         IN  <<x>> \o InOrder(S \ {x})

\* no callback is called
Silent == notified' = <<>>

\* the callbacks are not observed
Unobserved == UNCHANGED notified

SessionInit ==
    /\ rooms = EmptyMap
    /\ deviceInfo = EmptyMap
    /\ deviceSubscriptions = EmptyMap
    /\ sockets = {}
    /\ adapter = EmptyMap
    /\ emitted = NoOutput
    /\ handled = 0
    /\ sockOwner = [i \in Ids |-> "-"]
    /\ inbox = [i \in Ids |-> <<>>]
    /\ outbox = [i \in Ids |-> <<>>]
    /\ socketRef = [e \in Endpoints |-> [id |-> 0, connected |-> FALSE]]
    /\ peersRef = [e \in Endpoints |-> [i \in Ids |-> NoPeer]]
    /\ connectedPeersRef = [e \in Endpoints |-> {}]
    /\ notifiedPeersRef = [e \in Endpoints |-> {}]
    /\ peerDeviceNamesRef = [e \in Endpoints |-> [i \in Ids |-> ""]]
    /\ notifyCount = [e \in Endpoints |-> [i \in Ids |-> 0]]
    /\ joinedBefore = {}
    /\ apiCalls = 0
    /\ closes = 0
    /\ notified = <<>>

Connected(e) == socketRef[e].connected

\* the relay has handled everything the endpoints emitted: the endpoints and
\* the transports take their steps between the relay's
Quiet == \A i \in Ids : outbox[i] = <<>>

\* every endpoint has handled what the relay sent it: the application calls
\* joinRoom and leaveRoom on a settled session
Settled == \A i \in Ids : inbox[i] = <<>>

MyId(e) == socketRef[e].id

JoinMsg(e) == Msg("join-room", 0, NameOf(e), TheRoom, {})

\* socket 'connect' (first connection or a reconnection, which gets a new
\* id): the handler clears notifiedPeersRef and emits join-room; the
\* [roomId, isConnected, deviceName] effect then emits join-room again.
\* The endpoints are interchangeable: the first connection is A's.
SocketConnect(e) ==
    /\ ~Connected(e)
    /\ Quiet
    /\ \E id \in Ids :
        /\ sockOwner[id] = "-"
        /\ (id = 1 => e = "A")
        /\ \A j \in Ids : j < id => sockOwner[j] # "-"
        /\ sockOwner' = [sockOwner EXCEPT ![id] = e]
        /\ sockets' = sockets \cup {id}
        /\ adapter' = Put(adapter, SidOf(id), {id})
        /\ socketRef' = [socketRef EXCEPT ![e] = [id |-> id, connected |-> TRUE]]
        /\ outbox' = [outbox EXCEPT ![id] = <<JoinMsg(e), JoinMsg(e)>>]
    /\ notifiedPeersRef' = [notifiedPeersRef EXCEPT ![e] = {}]
    /\ UNCHANGED <<rooms, deviceInfo, deviceSubscriptions, inbox, peersRef,
                   connectedPeersRef, peerDeviceNamesRef, historyVars>>
    /\ UNCHANGED <<transferVars, wireVars, pairingVars>>

\* socket 'disconnect' at the client: setIsConnected(false); what was in
\* flight on this connection is lost
SocketDrop(e) ==
    /\ Connected(e)
    /\ Quiet
    /\ socketRef' = [socketRef EXCEPT ![e].connected = FALSE]
    /\ inbox' = [inbox EXCEPT ![MyId(e)] = <<>>]
    /\ outbox' = [outbox EXCEPT ![MyId(e)] = <<>>]
    /\ UNCHANGED <<relayVars, sockOwner, peersRef, connectedPeersRef,
                   notifiedPeersRef, peerDeviceNamesRef, historyVars>>
    /\ UNCHANGED <<transferVars, wireVars, pairingVars>>

\* the relay notices that a connection is gone
ServerDisconnect(c) ==
    /\ c \in sockets
    /\ Quiet
    /\ ~Reachable(c)
    /\ LET r == relayDisconnect(Relay, c)
       IN  SetRelay(r.st) /\ Emit(r.to)
    /\ UNCHANGED <<sockOwner, outbox, hookVars, historyVars>>
    /\ UNCHANGED <<transferVars, wireVars, pairingVars>>

\* the relay handles the next message of connection c
ServerHandle(c) ==
    /\ c \in sockets
    /\ outbox[c] # <<>>
    /\ LET m == Head(outbox[c])
           r == CASE m.t = "join-room"  -> relayJoin(Relay, c, m.roomId, m.name)
                  [] m.t = "leave-room" -> relayLeave(Relay, c, m.roomId)
                  [] m.t = "offer"      -> relayOffer(Relay, c, SidOf(m.id), m.name)
                  [] m.t = "answer"     -> relayAnswer(Relay, c, SidOf(m.id))
       IN  /\ SetRelay(r.st)
           /\ Emit(r.to)
           /\ joinedBefore' =
                IF m.t = "join-room" /\ m.roomId \in DOMAIN rooms
                THEN joinedBefore \cup {<<x, c>> : x \in rooms[m.roomId] \ {c}}
                ELSE joinedBefore
    /\ outbox' = [outbox EXCEPT ![c] = Tail(@)]
    /\ UNCHANGED <<sockOwner, hookVars, notifyCount, apiCalls, closes>>
    /\ UNCHANGED <<transferVars, wireVars, pairingVars>>

HeadIs(e, t) ==
    /\ Connected(e)
    /\ Quiet
    /\ inbox[MyId(e)] # <<>>
    /\ Head(inbox[MyId(e)]).t = t

Consume(e) == inbox' = [inbox EXCEPT ![MyId(e)] = Tail(@)]

\* socket.on('peers')
HandlePeers(e) ==
    /\ HeadIs(e, "peers")
    /\ LET m     == Head(inbox[MyId(e)])
           ids   == {p.peerId : p \in m.peers}
           named == {p \in m.peers : p.deviceName # ""}
           fresh == ids \ notifiedPeersRef[e]
       IN  /\ peersRef' = [peersRef EXCEPT ![e] =
                [x \in Ids |-> IF x \in ids THEN createPeer(@, x, TRUE)[x] ELSE @[x]]]
           /\ peerDeviceNamesRef' = [peerDeviceNamesRef EXCEPT ![e] =
                [x \in Ids |-> IF \E p \in named : p.peerId = x
                               THEN (CHOOSE p \in named : p.peerId = x).deviceName
                               ELSE @[x]]]
           /\ notifiedPeersRef' = [notifiedPeersRef EXCEPT ![e] = @ \cup fresh]
           /\ notifyCount' = [notifyCount EXCEPT ![e] =
                [x \in Ids |-> IF x \in fresh THEN Bump(@[x]) ELSE @[x]]]
    /\ Consume(e)
    /\ UNCHANGED <<relayVars, sockOwner, outbox, socketRef, connectedPeersRef,
                   joinedBefore, apiCalls, closes>>
    /\ UNCHANGED <<transferVars, wireVars, pairingVars>>

\* socket.on('peer-joined')
HandlePeerJoined(e) ==
    /\ HeadIs(e, "peer-joined")
    /\ LET m == Head(inbox[MyId(e)])
           x == m.id
       IN  IF x \in notifiedPeersRef[e]
           THEN UNCHANGED <<peersRef, peerDeviceNamesRef, notifiedPeersRef, notifyCount>>
           ELSE /\ peersRef' = [peersRef EXCEPT ![e] = createPeer(@, x, FALSE)]
                /\ peerDeviceNamesRef' =
                     IF m.name # ""
                     THEN [peerDeviceNamesRef EXCEPT ![e][x] = m.name]
                     ELSE peerDeviceNamesRef
                /\ notifiedPeersRef' = [notifiedPeersRef EXCEPT ![e] = @ \cup {x}]
                /\ notifyCount' = [notifyCount EXCEPT ![e][x] = Bump(@)]
    /\ Consume(e)
    /\ UNCHANGED <<relayVars, sockOwner, outbox, socketRef, connectedPeersRef,
                   joinedBefore, apiCalls, closes>>
    /\ UNCHANGED <<transferVars, wireVars, pairingVars>>

\* peer.on('close'): the refs of endpoint e after the transport for x closed
\* (onPeerDisconnected(x) is called)
CloseEffects(e, x) ==
    /\ peersRef' = [peersRef EXCEPT ![e][x] = NoPeer]
    /\ connectedPeersRef' = [connectedPeersRef EXCEPT ![e] = @ \ {x}]
    /\ notifiedPeersRef' = [notifiedPeersRef EXCEPT ![e] = @ \ {x}]
    /\ peerDeviceNamesRef' = [peerDeviceNamesRef EXCEPT ![e][x] = ""]
    /\ notifyCount' = [notifyCount EXCEPT ![e][x] = 0]

\* socket.on('peer-left'): an existing transport is destroyed, which runs its
\* 'close' handler (and that calls onPeerDisconnected(x)); the handler itself
\* calls onPeerDisconnected(x) in either case
HandlePeerLeft(e) ==
    /\ HeadIs(e, "peer-left")
    /\ LET x == Head(inbox[MyId(e)]).id
       IN  IF peersRef[e][x].exists
           THEN CloseEffects(e, x)
           ELSE /\ notifyCount' = [notifyCount EXCEPT ![e][x] = 0]
                /\ UNCHANGED <<peersRef, connectedPeersRef, notifiedPeersRef,
                               peerDeviceNamesRef>>
    /\ Consume(e)
    /\ UNCHANGED <<relayVars, sockOwner, outbox, socketRef,
                   joinedBefore, apiCalls, closes>>
    /\ UNCHANGED <<transferVars, wireVars, pairingVars>>

\* socket.on('offer')
HandleOffer(e) ==
    /\ HeadIs(e, "offer")
    /\ LET m    == Head(inbox[MyId(e)])
           from == m.id
           p    == peersRef[e][from]
       IN  IF p.exists
           THEN /\ peersRef' =
                     IF ~p.initiator /\ p.stage = "new"
                     THEN [peersRef EXCEPT ![e][from].stage = "gotOffer"]
                     ELSE peersRef
                /\ peerDeviceNamesRef' =
                     IF m.name # ""
                     THEN [peerDeviceNamesRef EXCEPT ![e][from] = m.name]
                     ELSE peerDeviceNamesRef
                /\ IF m.name # "" /\ from \notin notifiedPeersRef[e]
                   THEN /\ notifiedPeersRef' = [notifiedPeersRef EXCEPT ![e] = @ \cup {from}]
                        /\ notifyCount' = [notifyCount EXCEPT ![e][from] = Bump(@)]
                   ELSE UNCHANGED <<notifiedPeersRef, notifyCount>>
           ELSE UNCHANGED <<peersRef, peerDeviceNamesRef, notifiedPeersRef, notifyCount>>
    /\ Consume(e)
    /\ UNCHANGED <<relayVars, sockOwner, outbox, socketRef, connectedPeersRef,
                   joinedBefore, apiCalls, closes>>
    /\ UNCHANGED <<transferVars, wireVars, pairingVars>>

\* socket.on('answer')
HandleAnswer(e) ==
    /\ HeadIs(e, "answer")
    /\ LET from == Head(inbox[MyId(e)]).id
           p    == peersRef[e][from]
       IN  peersRef' =
             IF p.exists /\ p.initiator /\ p.stage = "offered"
             THEN [peersRef EXCEPT ![e][from].stage = "answered"]
             ELSE peersRef
    /\ Consume(e)
    /\ UNCHANGED <<relayVars, sockOwner, outbox, socketRef, connectedPeersRef,
                   notifiedPeersRef, peerDeviceNamesRef, historyVars>>
    /\ UNCHANGED <<transferVars, wireVars, pairingVars>>

\* peer.on('signal') with the offer of an initiator or the answer of a
\* non-initiator; nothing is emitted while the socket is not connected
PeerSignal(e, x) ==
    /\ peersRef[e][x].exists
    /\ Quiet
    /\ \/ peersRef[e][x].initiator /\ peersRef[e][x].stage = "new"
       \/ ~peersRef[e][x].initiator /\ peersRef[e][x].stage = "gotOffer"
    /\ peersRef' = [peersRef EXCEPT ![e][x].stage =
                      IF peersRef[e][x].initiator THEN "offered" ELSE "answered"]
    /\ outbox' =
         IF Connected(e)
         THEN [outbox EXCEPT ![MyId(e)] = Append(@,
                 IF peersRef[e][x].initiator
                 THEN Msg("offer", x, NameOf(e), TheRoom, {})
                 ELSE Msg("answer", x, "", "", {}))]
         ELSE outbox
    /\ UNCHANGED <<relayVars, sockOwner, inbox, socketRef, connectedPeersRef,
                   notifiedPeersRef, peerDeviceNamesRef, historyVars>>
    /\ UNCHANGED <<transferVars, wireVars, pairingVars>>

\* the transport of e for x and a transport of the owner of x for e have
\* exchanged offer and answer
Negotiated(e, x) ==
    LET r == sockOwner[x]
    IN  /\ peersRef[e][x].exists
        /\ peersRef[e][x].stage = "answered"
        /\ r \in Endpoints \ {e}
        /\ \E y \in Ids :
             /\ sockOwner[y] = e
             /\ peersRef[r][y].exists
             /\ peersRef[r][y].stage \in {"answered", "connected"}
             /\ peersRef[r][y].initiator # peersRef[e][x].initiator

\* peer.on('connect')
PeerConnect(e, x) ==
    /\ Negotiated(e, x)
    /\ Quiet
    /\ peersRef' = [peersRef EXCEPT ![e][x].stage = "connected"]
    /\ connectedPeersRef' = [connectedPeersRef EXCEPT ![e] = @ \cup {x}]
    /\ IF x \notin notifiedPeersRef[e]
       THEN /\ notifiedPeersRef' = [notifiedPeersRef EXCEPT ![e] = @ \cup {x}]
            /\ notifyCount' = [notifyCount EXCEPT ![e][x] = Bump(@)]
       ELSE UNCHANGED <<notifiedPeersRef, notifyCount>>
    /\ UNCHANGED <<relayVars, netVars, socketRef, peerDeviceNamesRef,
                   joinedBefore, apiCalls, closes>>
    /\ UNCHANGED <<transferVars, wireVars, pairingVars>>

\* peer.on('close') of a transport that closes on its own (connection lost,
\* or the remote side destroyed its transport)
TransportClose(e, x) ==
    /\ peersRef[e][x].exists
    /\ Quiet
    /\ closes < MaxCloses
    /\ closes' = closes + 1
    /\ CloseEffects(e, x)
    /\ UNCHANGED <<relayVars, netVars, socketRef, joinedBefore, apiCalls>>
    /\ UNCHANGED <<transferVars, wireVars, pairingVars>>

\* joinRoom(newRoomId) called by the application (a repeated join); when the
\* socket is not connected only roomIdRef is set
JoinRoom(e) ==
    /\ Connected(e)
    /\ Quiet
    /\ Settled
    /\ apiCalls < MaxApiCalls
    /\ apiCalls' = apiCalls + 1
    /\ outbox' = [outbox EXCEPT ![MyId(e)] = Append(@, JoinMsg(e))]
    /\ UNCHANGED <<relayVars, sockOwner, inbox, hookVars, notifyCount,
                   joinedBefore, closes>>
    /\ UNCHANGED <<transferVars, wireVars, pairingVars>>

\* leaveRoom(roomIdToLeave) called by the application
LeaveRoom(e) ==
    /\ Connected(e)
    /\ Quiet
    /\ Settled
    /\ apiCalls < MaxApiCalls
    /\ apiCalls' = apiCalls + 1
    /\ outbox' = [outbox EXCEPT ![MyId(e)] =
                    Append(@, Msg("leave-room", 0, "", TheRoom, {}))]
    /\ UNCHANGED <<relayVars, sockOwner, inbox, hookVars, notifyCount,
                   joinedBefore, closes>>
    /\ UNCHANGED <<transferVars, wireVars, pairingVars>>

\* a connection of another client: it connects to the relay and emits an
\* offer for a live socket without joining a room; the relay's offer handler
\* takes an offer from any connection
OutsiderOffer(c, target) ==
    /\ Quiet
    /\ sockOwner[c] = "-"
    /\ \A j \in Ids : j < c => sockOwner[j] # "-"
    /\ target \in sockets
    /\ sockOwner' = [sockOwner EXCEPT ![c] = "outsider"]
    /\ sockets' = sockets \cup {c}
    /\ adapter' = Put(adapter, SidOf(c), {c})
    /\ outbox' = [outbox EXCEPT ![c] = <<Msg("offer", target, "Calm Otter", "", {})>>]
    /\ UNCHANGED <<rooms, deviceInfo, deviceSubscriptions, inbox, hookVars, historyVars>>
    /\ UNCHANGED <<transferVars, wireVars, pairingVars>>

(***************************************************************************)
(* The callbacks each handler calls, from the state it runs in             *)
(***************************************************************************)
\* socket.on('peers'): onPeerConnected for every listed id not yet notified
HandlePeersCalls(e) ==
    LET m     == Head(inbox[MyId(e)])
        fresh == {p.peerId : p \in m.peers} \ notifiedPeersRef[e]
    IN  [k \in 1..Cardinality(fresh) |->
            LET x == InOrder(fresh)[k]
            IN  PeerConnectedCall(e, x, (CHOOSE p \in m.peers : p.peerId = x).deviceName)]

\* socket.on('peer-joined')
HandlePeerJoinedCalls(e) ==
    LET m == Head(inbox[MyId(e)])
    IN  IF m.id \in notifiedPeersRef[e] THEN <<>>
        ELSE <<PeerConnectedCall(e, m.id, m.name)>>

\* socket.on('peer-left'): the handler's own call, and the call of the
\* 'close' handler of the transport it destroyed
HandlePeerLeftCalls(e) ==
    LET x == Head(inbox[MyId(e)]).id
    IN  IF peersRef[e][x].exists
        THEN <<PeerDisconnectedCall(e, x), PeerDisconnectedCall(e, x)>>
        ELSE <<PeerDisconnectedCall(e, x)>>

\* socket.on('offer')
HandleOfferCalls(e) ==
    LET m == Head(inbox[MyId(e)])
    IN  IF peersRef[e][m.id].exists /\ m.name # "" /\ m.id \notin notifiedPeersRef[e]
        THEN <<PeerConnectedCall(e, m.id, m.name)>>
        ELSE <<>>

\* peer.on('connect') that notifies whether or not the id is in the guard
PeerConnectCallsAlways(e, x) ==
    <<PeerConnectedCall(e, x, peerDeviceNamesRef[e][x])>>

\* peer.on('connect')
PeerConnectCalls(e, x) ==
    IF x \notin notifiedPeersRef[e]
    THEN <<PeerConnectedCall(e, x, peerDeviceNamesRef[e][x])>>
    ELSE <<>>

\* peer.on('close')
TransportCloseCalls(e, x) == <<PeerDisconnectedCall(e, x)>>

(***************************************************************************)
(* The relay on its own: connections that send it any wire message         *)
(***************************************************************************)
\* a join-room message that carries no roomId (data.roomId is undefined)
NoRoomId == "undefined"

\* room names on the wire: the rendezvous id, none, and a name that is also
\* the socket id of a connection
WireRooms == {TheRoom, NoRoomId, SidOf(1)}

\* display names on the wire; "" is a message without deviceName
WireNames == {"", NameOf("A")}

\* targets of handshake messages: socket ids, live or not, and a room name
WireTargets == {SidOf(i) : i \in Ids} \cup {TheRoom}

HandshakeKinds == {"offer", "answer", "ice-candidate"}

\* the offer, answer or candidate carried by a handshake message
HandshakePayloads == {"sdp"}

ClientOf(c) == IF c % 2 = 0 THEN "B" ELSE "A"

RelayRest == <<transferVars, inbox, outbox, hookVars, historyVars, pairingVars,
               eventVars>>

\* io.on('connection'): a new socket, in the room named by its id
Connection(c) ==
    /\ sockOwner[c] = "-"
    /\ \A j \in Ids : j < c => sockOwner[j] # "-"
    /\ sockOwner' = [sockOwner EXCEPT ![c] = ClientOf(c)]
    /\ sockets' = sockets \cup {c}
    /\ adapter' = Put(adapter, SidOf(c), {c})
    /\ emitted' = NoOutput
    /\ UNCHANGED <<rooms, deviceInfo, deviceSubscriptions, handled>>
    /\ UNCHANGED RelayRest

Handled(r) ==
    /\ handled < MaxWire
    /\ handled' = handled + 1
    /\ SetRelay(r.st)
    /\ emitted' = r.to
    /\ UNCHANGED sockOwner
    /\ UNCHANGED RelayRest

WireJoin(c, roomId, dn) ==
    /\ c \in sockets
    /\ Handled(relayJoin(Relay, c, roomId, dn))

WireLeave(c, roomId) ==
    /\ c \in sockets
    /\ Handled(relayLeave(Relay, c, roomId))

WireHandshake(c, kind, target, dn, payload) ==
    /\ c \in sockets
    /\ Handled(relayHandshake(Relay, c, kind, target, dn, payload))

WireSubscribe(c, deviceNames) ==
    /\ c \in sockets
    /\ Handled(relaySubscribe(Relay, c, deviceNames))

WireUnsubscribe(c, deviceNames) ==
    /\ c \in sockets
    /\ Handled(relayUnsubscribe(Relay, c, deviceNames))

WireDisconnect(c) ==
    /\ c \in sockets
    /\ Handled(relayDisconnect(Relay, c))

(***************************************************************************)
(* Pairing: frontend/src/utils/pairingHistory.ts                           *)
(***************************************************************************)
\* "Swift Moth" and "Bold Tiger" as UTF-16 code units
SwiftMoth == <<83, 119, 105, 102, 116, 32, 77, 111, 116, 104>>

BoldTiger == <<66, 111, 108, 100, 32, 84, 105, 103, 101, 114>>

\* display names: the empty name, short names, names that are prefixes of
\* one another, and two generated names
PairNames == {<<>>, <<65>>, <<66>>, <<97>>, <<65, 66>>, <<66, 65>>,
              <<65, 45, 66>>, SwiftMoth, BoldTiger}

\* a < b for strings, by UTF-16 code units (the default sort order)
StrLess(a, b) ==
    \E i \in 1..Len(b) :
        /\ \A j \in 1..(i - 1) : j <= Len(a) /\ a[j] = b[j]
        /\ i > Len(a) \/ a[i] < b[i]

\* [deviceName1, deviceName2] left as given
sortedAsGiven(a, b) == <<a, b>>

\* [deviceName1, deviceName2].sort()
sorted(a, b) == IF StrLess(b, a) THEN <<b, a>> ELSE <<a, b>>

\* `${sorted[0]}-${sorted[1]}`
combined(a, b) == sorted(a, b)[1] \o <<45>> \o sorted(a, b)[2]

\* a 32-bit integer as its two 16-bit halves
Half == 65536

\* hash << 5: the 32-bit left shift
shiftLeft5(h) ==
    [hi |-> (32 * h.hi + (32 * h.lo) \div Half) % Half, lo |-> (32 * h.lo) % Half]

\* a step that shifts by 4 instead of 5
hashStepShift4(h, char) ==
    LET lo == 15 * h.lo + char
        hi == 15 * h.hi + (lo \div Half)
    IN  [hi |-> hi % Half, lo |-> lo % Half]

\* hash = ((hash << 5) - hash) + char; hash = hash & hash: the difference
\* and the sum are exact, the & keeps their low 32 bits
hashStep(h, char) ==
    LET s  == shiftLeft5(h)
        lo == (s.lo - h.lo + char) + Half
        hi == (s.hi - h.hi) + (lo \div Half - 1) + Half
    IN  [hi |-> hi % Half, lo |-> lo % Half]

RECURSIVE hashOf(_, _)
hashOf(h, str) ==
    IF str = <<>> THEN h
    ELSE LET hash == hashStep(h, Head(str))
         IN  \* hash is a 32-bit value after every iteration
             IF hash.hi < Half /\ hash.lo < Half THEN hashOf(hash, Tail(str)) ELSE hash

\* Math.abs(hash) of the signed 32-bit value, as halves (2^31 for -2^31)
absOf(h) ==
    IF h.hi < Half \div 2 THEN h
    ELSE IF h.lo = 0 THEN [hi |-> Half - h.hi, lo |-> 0]
    ELSE [hi |-> Half - 1 - h.hi, lo |-> Half - h.lo]

\* Number.prototype.toString(): the decimal digits
RECURSIVE digitsOf(_)
digitsOf(h) ==
    IF h.hi = 0 /\ h.lo < 10 THEN <<h.lo>>
    ELSE LET t == (h.hi % 10) * Half + h.lo
         IN  digitsOf([hi |-> h.hi \div 10, lo |-> t \div 10]) \o <<t % 10>>

\* padStart(6, '0')
padStart6(d) == IF Len(d) >= 6 THEN d ELSE [i \in 1..(6 - Len(d)) |-> 0] \o d

\* generatePairingRoomId(deviceName1, deviceName2): the code as its digits
generatePairingRoomId(deviceName1, deviceName2) ==
    SubSeq(padStart6(digitsOf(absOf(hashOf([hi |-> 0, lo |-> 0],
                                          combined(deviceName1, deviceName2))))),
           1, 6)

NoCode == <<>>

PairingIdle ==
    /\ pairInput = <<<<>>, <<>>>>
    /\ pairCode = [ab |-> NoCode, ba |-> NoCode]

PairingInit ==
    /\ pairInput \in PairNames \X PairNames
    /\ pairCode = [ab |-> NoCode, ba |-> NoCode]

PairingRest == <<transferVars, relayVars, netVars, hookVars, historyVars, wireVars,
                 eventVars>>

\* one device derives the code for (its name, the other's name)
DeriveAB ==
    /\ pairCode.ab = NoCode
    /\ pairCode' = [pairCode EXCEPT !.ab = generatePairingRoomId(pairInput[1], pairInput[2])]
    /\ UNCHANGED <<pairInput, storeVars, codeVars, appVars>>
    /\ UNCHANGED PairingRest

\* the other device derives it for (its name, the first one's name)
DeriveBA ==
    /\ pairCode.ba = NoCode
    /\ pairCode' = [pairCode EXCEPT !.ba = generatePairingRoomId(pairInput[2], pairInput[1])]
    /\ UNCHANGED <<pairInput, storeVars, codeVars, appVars>>
    /\ UNCHANGED PairingRest

(***************************************************************************)
(* Pairing history: frontend/src/utils/pairingHistory.ts                   *)
(***************************************************************************)
\* slice(0, 10)
HistoryLimit == 10

MaxStoreCalls == 3

\* remote display names, enough of them to fill the history and go past it
RemoteNames == <<"Swift Moth", "Bold Tiger", "Calm Otter", "Keen Hawk",
                 "Wise Owl", "Brave Lynx", "Quick Fox", "Proud Stag",
                 "Shy Wren", "Merry Seal", "Lucky Crab", "Noble Swan">>

RemoteNameSet == {RemoteNames[i] : i \in 1..Len(RemoteNames)}

\* the names paired with or removed after that: the two oldest records, the
\* newest one, and two names not paired before
StoreNames == {RemoteNames[i] : i \in {1, 2, HistoryLimit, HistoryLimit + 1, HistoryLimit + 2}}

RoomIds == {TheRoom, "149925"}

PairingRecord(peerDeviceName, roomId, lastConnected, connectionCount) ==
    [deviceName |-> peerDeviceName, roomId |-> roomId,
     lastConnected |-> lastConnected, connectionCount |-> connectionCount]

\* the place of a record in an array sorted by b.lastConnected - a.lastConnected:
\* after every record that is not older (the sort is stable)
RECURSIVE sortInsert(_, _)
sortInsert(records, r) ==
    IF records = <<>> THEN <<r>>
    ELSE IF Head(records).lastConnected >= r.lastConnected
         THEN <<Head(records)>> \o sortInsert(Tail(records), r)
         ELSE <<r>> \o records

RECURSIVE sortInto(_, _)
sortInto(done, records) ==
    IF records = <<>> THEN done
    ELSE sortInto(sortInsert(done, Head(records)), Tail(records))

\* getPairingHistory(): the stored records, most recent first
getPairingHistory(stored) == sortInto(<<>>, stored)

\* history.findIndex(record => record.deviceName === peerDeviceName), 0 for -1
findIndex(history, peerDeviceName) ==
    IF \E i \in 1..Len(history) : history[i].deviceName = peerDeviceName
    THEN CHOOSE i \in 1..Len(history) :
            /\ history[i].deviceName = peerDeviceName
            /\ \A j \in 1..(i - 1) : history[j].deviceName # peerDeviceName
    ELSE 0

\* history.slice(0, n)
sliceFirst(history, n) == SubSeq(history, 1, IF Len(history) < n THEN Len(history) ELSE n)

\* savePairing(peerDeviceName, roomId) with Date.now() = now: the array it stores
savePairing(stored, peerDeviceName, roomId, now) ==
    LET history == getPairingHistory(stored)
        existingIndex == findIndex(history, peerDeviceName)
        record == PairingRecord(peerDeviceName, roomId, now,
                     IF existingIndex > 0
                     THEN history[existingIndex].connectionCount + 1
                     ELSE 1)
        updated == IF existingIndex > 0
                   THEN [history EXCEPT ![existingIndex] = record]
                   ELSE Append(history, record)
    IN  sliceFirst(updated, HistoryLimit)

\* removePairing(peerDeviceName): the array it stores
removePairing(stored, peerDeviceName) ==
    SelectSeq(getPairingHistory(stored), LAMBDA record : record.deviceName # peerDeviceName)

\* the array stored after the first k remote names paired one after another
RECURSIVE PairedWithFirst(_)
PairedWithFirst(k) ==
    IF k = 0 THEN <<>>
    ELSE savePairing(PairedWithFirst(k - 1), RemoteNames[k], TheRoom, k)

StoreIdle ==
    /\ localStorage = <<>>
    /\ clock = 0
    /\ storeCalls = 0

StoreInit ==
    /\ \E k \in 0..HistoryLimit :
        /\ localStorage = PairedWithFirst(k)
        /\ clock = k
    /\ storeCalls = 0

StoreRest == <<transferVars, relayVars, netVars, hookVars, historyVars, wireVars,
               pairInput, pairCode, codeVars, appVars, eventVars>>

\* App.handlePeerConnected: savePairing(peerDeviceName, currentRoomId)
SavePairing(peerDeviceName, roomId, now) ==
    /\ storeCalls < MaxStoreCalls
    /\ now >= clock
    /\ localStorage' = savePairing(localStorage, peerDeviceName, roomId, now)
    /\ clock' = now
    /\ storeCalls' = storeCalls + 1
    /\ UNCHANGED StoreRest

\* RecentDevices.handleRemove: removePairing(peerDeviceName)
RemovePairing(peerDeviceName) ==
    /\ storeCalls < MaxStoreCalls
    /\ localStorage' = removePairing(localStorage, peerDeviceName)
    /\ storeCalls' = storeCalls + 1
    /\ UNCHANGED clock
    /\ UNCHANGED StoreRest

(***************************************************************************)
(* Room codes: frontend/src/utils/roomCode.ts                              *)
(***************************************************************************)
\* Math.random() returns draw / RandomScale
RandomScale == 1000

\* the smallest draws, one in the middle and the largest
Draws == {0, 1, RandomScale \div 2, RandomScale - 1}

\* Number.prototype.toString() of a non-negative integer, as code units
RECURSIVE numberToString(_)
numberToString(n) ==
    IF n < 10 THEN <<48 + n>> ELSE numberToString(n \div 10) \o <<48 + (n % 10)>>

\* a generator that draws from 0 instead of 100000
generateRoomCodeFromZero(draw) ==
    numberToString((draw * 1000000) \div RandomScale)

\* Math.floor(100000 + Math.random() * 900000).toString()
generateRoomCode(draw) ==
    numberToString(100000 + (draw * 900000) \div RandomScale)

\* the code units String.prototype.trim() removes: white space and line
\* terminators
WhiteSpace == {9, 10, 11, 12, 13, 32, 160, 5760, 8232, 8233, 8239, 8287, 12288, 65279}
                  \cup (8192..8202)

RECURSIVE trimStart(_)
trimStart(str) ==
    IF str # <<>> /\ Head(str) \in WhiteSpace THEN trimStart(Tail(str)) ELSE str

RECURSIVE trimEnd(_)
trimEnd(str) ==
    IF str # <<>> /\ str[Len(str)] \in WhiteSpace
    THEN trimEnd(SubSeq(str, 1, Len(str) - 1))
    ELSE str

trim(str) == trimEnd(trimStart(str))

\* /^\d{6}$/.test(code.trim()): \d is [0-9], ^ and $ are the ends of the input
isValidRoomCode(code) ==
    LET t == trim(code)
    IN  Len(t) = 6 /\ \A i \in 1..6 : t[i] \in 48..57

\* the digits of a derived code as a string
codeString(digits) == [i \in 1..Len(digits) |-> 48 + digits[i]]

\* a name for which the hash of '-' + name is -2^31
MinHashName == <<99, 114, 103, 98, 114, 117, 122>>

CodeNames == {<<>>, <<65>>, SwiftMoth, BoldTiger, MinHashName}

\* strings handed to isValidRoomCode: "482913", " 482913 ", "482913\n",
\* "48291", "4829130", "48 913", "48291a", six Arabic-Indic digits, six
\* full-width digits, "", six spaces, "-82913", "\t482913", "482913" + NBSP
TypedCodes ==
    { <<52, 56, 50, 57, 49, 51>>,
      <<32, 52, 56, 50, 57, 49, 51, 32>>,
      <<52, 56, 50, 57, 49, 51, 10>>,
      <<52, 56, 50, 57, 49>>,
      <<52, 56, 50, 57, 49, 51, 48>>,
      <<52, 56, 32, 57, 49, 51>>,
      <<52, 56, 50, 57, 49, 97>>,
      <<1636, 1640, 1634, 1641, 1633, 1635>>,
      <<65300, 65304, 65298, 65305, 65297, 65299>>,
      <<>>,
      <<32, 32, 32, 32, 32, 32>>,
      <<45, 56, 50, 57, 49, 51>>,
      <<9, 52, 56, 50, 57, 49, 51>>,
      <<52, 56, 50, 57, 49, 51, 160>> }

Unchecked == "unchecked"

CodeIdle ==
    /\ roomCode = [text |-> <<>>, by |-> "none"]
    /\ codeValid = Unchecked

CodeRest == <<transferVars, relayVars, netVars, hookVars, historyVars, wireVars,
              pairInput, pairCode, storeVars, appVars, eventVars>>

\* PairingModal: const code = generateRoomCode()
GenerateRoomCode(draw) ==
    /\ roomCode' = [text |-> generateRoomCode(draw), by |-> "random"]
    /\ codeValid' = Unchecked
    /\ UNCHANGED CodeRest

\* RecentDevices.handleConnect: generatePairingRoomId(currentDeviceName, deviceName)
PairingRoomId ==
    /\ roomCode' = [text |-> codeString(generatePairingRoomId(pairInput[1], pairInput[2])),
                    by   |-> "pairing"]
    /\ codeValid' = Unchecked
    /\ UNCHANGED CodeRest

\* a string from elsewhere (typed, pasted, from a link)
EnterCode(text) ==
    /\ roomCode' = [text |-> text, by |-> "typed"]
    /\ codeValid' = Unchecked
    /\ UNCHANGED CodeRest

\* isValidRoomCode(code)
ValidateCode ==
    /\ roomCode.by # "none"
    /\ codeValid = Unchecked
    /\ codeValid' = IF isValidRoomCode(roomCode.text) THEN "true" ELSE "false"
    /\ UNCHANGED roomCode
    /\ UNCHANGED CodeRest

(***************************************************************************)
(* Application: frontend/src/App.tsx                                       *)
(***************************************************************************)
\* const maxAttempts = 20
maxAttempts == 20

\* handleSendText calls made by the user, one after another
MaxTexts == 2

NoTextSend == [status |-> "idle", attempts |-> 0, calls |-> 0, lastCall |-> "none",
               result |-> "none", reported |-> FALSE, texts |-> 0]

\* useFileTransfer takes { deviceName, sendData, onFileReceived }: the
\* onProgress callback App passes is not among its options and is never called
AppIdle ==
    /\ textSend = NoTextSend
    /\ progress = <<>>
    /\ currentRoomId = <<>>
    /\ joinRoomCalls = <<>>

AppRest == <<transferVars, relayVars, netVars, hookVars, historyVars, wireVars,
             pairInput, pairCode, storeVars, codeVars, progress, roomVars, eventVars>>

\* handleSendText(text) up to the loop: returns false without a recipient
\* or with a blank text
HandleSendText(hasRecipient, blank) ==
    /\ textSend.status \in {"idle", "returned"}
    /\ textSend.texts < MaxTexts
    /\ textSend' =
          IF ~hasRecipient \/ blank
          THEN [NoTextSend EXCEPT !.status = "returned", !.result = "false",
                                  !.texts = textSend.texts + 1]
          ELSE [NoTextSend EXCEPT !.status = "sending", !.texts = textSend.texts + 1]
    /\ UNCHANGED AppRest

\* a loop that tests attempts <= maxAttempts
SendTextAttemptOneMore(sendThrows) ==
    /\ textSend.status = "sending"
    /\ textSend' =
          IF sendData(sendThrows)
          THEN [textSend EXCEPT !.calls = @ + 1, !.lastCall = "true",
                                !.status = "returned", !.result = "true"]
          ELSE IF textSend.attempts + 1 <= maxAttempts
               THEN [textSend EXCEPT !.calls = @ + 1, !.lastCall = "false",
                                     !.attempts = @ + 1]
               ELSE [textSend EXCEPT !.calls = @ + 1, !.lastCall = "false",
                                     !.attempts = @ + 1,
                                     !.status = "returned", !.result = "false",
                                     !.reported = TRUE]
    /\ UNCHANGED AppRest

\* one iteration of the loop: sendData(device.id, messageData); on success
\* return true; otherwise wait 500 ms and count the attempt, and when the
\* loop ends setReceivedMessage('Failed to send text ...') and return false
SendTextAttempt(sendThrows) ==
    /\ textSend.status = "sending"
    /\ textSend' =
          IF sendData(sendThrows)
          THEN [textSend EXCEPT !.calls = @ + 1, !.lastCall = "true",
                                !.status = "returned", !.result = "true"]
          ELSE IF textSend.attempts + 1 < maxAttempts
               THEN [textSend EXCEPT !.calls = @ + 1, !.lastCall = "false",
                                     !.attempts = @ + 1]
               ELSE [textSend EXCEPT !.calls = @ + 1, !.lastCall = "false",
                                     !.attempts = @ + 1,
                                     !.status = "returned", !.result = "false",
                                     !.reported = TRUE]
    /\ UNCHANGED AppRest

\* useState<string | null>(null)
NoRoom == <<>>

\* joinRoom calls made by one application
MaxJoins == 2

\* the device names of the auto-join: a short one and two generated ones
AutoNames == {<<65>>, SwiftMoth, BoldTiger}

AutoNameSeq == <<<<65>>, SwiftMoth, BoldTiger>>

\* room ids of a room-join-request: the pairing code of every two names and
\* a code that is no pair's
AutoRooms == {generatePairingRoomId(a, b) : a, b \in AutoNames} \cup {<<1, 4, 9, 9, 2, 5>>}

\* room codes the user enters: the code of two generated names and another
TypedRooms == {generatePairingRoomId(SwiftMoth, BoldTiger), <<1, 4, 9, 9, 2, 5>>}

\* the array stored after deviceName paired with each of names in turn, each
\* in the pair's room
RECURSIVE PairedWith(_, _)
PairedWith(own, names) ==
    IF names = <<>> THEN <<>>
    ELSE LET k == Len(names)
         IN  savePairing(PairedWith(own, SubSeq(names, 1, k - 1)), names[k],
                         generatePairingRoomId(own, names[k]), k)

RoomRest == <<transferVars, relayVars, netVars, hookVars, historyVars, wireVars,
              pairInput, pairCode, storeVars, codeVars, textSend, progress, eventVars>>

\* a handler that joins the room of any request by a recent device
handleRoomJoinRequestAnyRoom(room, own, stored, data) ==
    LET stay == [currentRoomId |-> room, joinRoom |-> <<>>]
    IN  IF room # NoRoom /\ room # data.roomId THEN stay
        ELSE IF data.deviceName = own THEN stay
        ELSE LET recentDevices   == getPairingHistory(stored)
                 hasRecentDevice == \E i \in 1..Len(recentDevices) :
                                        recentDevices[i].deviceName = data.deviceName
             IN  IF hasRecentDevice /\ room # data.roomId
                 THEN [currentRoomId |-> data.roomId, joinRoom |-> <<data.roomId>>]
                 ELSE stay

\* handleRoomJoinRequest(data) with currentRoomId = room, deviceName = own and
\* the stored history: the new currentRoomId and the joinRoom calls made
handleRoomJoinRequest(room, own, stored, data) ==
    LET stay == [currentRoomId |-> room, joinRoom |-> <<>>]
    IN  IF room # NoRoom /\ room # data.roomId THEN stay
        ELSE IF data.deviceName = own THEN stay
        ELSE LET recentDevices   == getPairingHistory(stored)
                 hasRecentDevice == \E i \in 1..Len(recentDevices) :
                                        recentDevices[i].deviceName = data.deviceName
                 expectedRoomId  == generatePairingRoomId(own, data.deviceName)
             IN  IF hasRecentDevice /\ expectedRoomId = data.roomId /\ room # data.roomId
                 THEN [currentRoomId |-> data.roomId, joinRoom |-> <<data.roomId>>]
                 ELSE stay

\* joinRoom(roomId), with the handler that called it
JoinRoomCall(roomId, by) == [roomId |-> roomId, by |-> by]

\* socket.on('room-join-request', handleRoomJoinRequest); the application's
\* deviceName is pairInput[1]
HandleRoomJoinRequest(roomId, name) ==
    /\ Len(joinRoomCalls) < MaxJoins
    /\ LET r == handleRoomJoinRequest(currentRoomId, pairInput[1], localStorage,
                                      [roomId |-> roomId, deviceName |-> name])
       IN  /\ currentRoomId' = r.currentRoomId
           /\ joinRoomCalls' =
                  IF r.joinRoom = <<>> THEN joinRoomCalls
                  ELSE Append(joinRoomCalls,
                              JoinRoomCall(r.joinRoom[1], "room-join-request"))
    /\ UNCHANGED RoomRest

\* handleRoomJoin(roomId): the user enters a room code
HandleRoomJoin(roomId) ==
    /\ Len(joinRoomCalls) < MaxJoins
    /\ currentRoomId' = roomId
    /\ joinRoomCalls' = Append(joinRoomCalls, JoinRoomCall(roomId, "handleRoomJoin"))
    /\ UNCHANGED RoomRest

\* handleDisconnectDevice of the last discovered device: leaveRoom(currentRoomId)
\* and setCurrentRoomId(null)
HandleDisconnectDevice ==
    /\ currentRoomId # NoRoom
    /\ currentRoomId' = NoRoom
    /\ UNCHANGED joinRoomCalls
    /\ UNCHANGED RoomRest

\* the transport to the recipient closes meanwhile
TextPeerClose ==
    /\ linkUp
    /\ linkUp' = FALSE
    /\ UNCHANGED <<xfers, sendLog, sendErrors, channel, early, receiverVars>>
    /\ UNCHANGED sessionVars

(***************************************************************************)
(* Specifications                                                          *)
(***************************************************************************)
Init == TransferInit /\ SessionInit /\ PairingIdle /\ StoreIdle /\ CodeIdle /\ AppIdle

NextTransfer ==
    \/ \E file \in Files : SendFileStart(file, FALSE)
    \/ SendFileStep(FALSE)
    \/ Deliver
    \/ DeliverChunkBeforeMetadata
    \/ \E name \in FileNames : TimeoutFires(name)
    \/ PeerClose

SpecTransfer == Init /\ [][NextTransfer]_vars

\* the sender alone, with sendData calls that may fail one at a time
NextSend ==
    \/ \E file \in Files, sendThrows \in BOOLEAN : SendFileStart(file, sendThrows)
    \/ \E sendThrows \in BOOLEAN : SendFileStep(sendThrows)
    \/ PeerClose

SpecSend == Init /\ [][NextSend]_vars

NextSession ==
    \/ \E e \in Endpoints : SocketConnect(e) /\ Unobserved
    \/ \E e \in Endpoints : SocketDrop(e) /\ Unobserved
    \/ \E c \in Ids : ServerDisconnect(c) /\ Unobserved
    \/ \E c \in Ids : ServerHandle(c) /\ Unobserved
    \/ \E e \in Endpoints : HandlePeers(e) /\ Unobserved
    \/ \E e \in Endpoints : HandlePeerJoined(e) /\ Unobserved
    \/ \E e \in Endpoints : HandlePeerLeft(e) /\ Unobserved
    \/ \E e \in Endpoints : HandleOffer(e) /\ Unobserved
    \/ \E e \in Endpoints : HandleAnswer(e) /\ Unobserved
    \/ \E e \in Endpoints, x \in Ids : PeerSignal(e, x) /\ Unobserved
    \/ \E e \in Endpoints, x \in Ids : PeerConnect(e, x) /\ Unobserved
    \/ \E e \in Endpoints, x \in Ids : TransportClose(e, x) /\ Unobserved
    \/ \E e \in Endpoints : JoinRoom(e) /\ Unobserved
    \/ \E e \in Endpoints : LeaveRoom(e) /\ Unobserved

SpecSession == Init /\ [][NextSession]_vars

NextRelay ==
    \/ \E c \in Ids : Connection(c)
    \/ \E c \in Ids, roomId \in WireRooms, dn \in WireNames : WireJoin(c, roomId, dn)
    \/ \E c \in Ids, roomId \in WireRooms : WireLeave(c, roomId)
    \/ \E c \in Ids, kind \in HandshakeKinds, target \in WireTargets,
          payload \in HandshakePayloads :
            \E dn \in (IF kind = "offer" THEN WireNames ELSE {""}) :
                WireHandshake(c, kind, target, dn, payload)
    \/ \E c \in Ids, deviceNames \in SUBSET (WireNames \ {""}) : WireSubscribe(c, deviceNames)
    \/ \E c \in Ids, deviceNames \in SUBSET (WireNames \ {""}) : WireUnsubscribe(c, deviceNames)
    \/ \E c \in Ids : WireDisconnect(c)

SpecRelay == Init /\ [][NextRelay]_vars

\* two endpoints that connect, join (and may join again) and stay connected:
\* no connection is dropped, no transport closes, nobody leaves
NextDiscovery ==
    \/ \E e \in Endpoints : SocketConnect(e) /\ Unobserved
    \/ \E e \in Endpoints : JoinRoom(e) /\ Unobserved
    \/ \E c \in Ids : ServerHandle(c) /\ Unobserved
    \/ \E e \in Endpoints : HandlePeers(e) /\ Unobserved
    \/ \E e \in Endpoints : HandlePeerJoined(e) /\ Unobserved
    \/ \E e \in Endpoints : HandleOffer(e) /\ Unobserved
    \/ \E e \in Endpoints : HandleAnswer(e) /\ Unobserved
    \/ \E e \in Endpoints, x \in Ids : PeerSignal(e, x) /\ Unobserved
    \/ \E e \in Endpoints, x \in Ids : PeerConnect(e, x) /\ Unobserved

\* the relay and each endpoint's event loop handle what is delivered to
\* them; a created transport emits its signal
DiscoveryFairness ==
    /\ \A e \in Endpoints : WF_vars(SocketConnect(e) /\ Unobserved)
    /\ \A c \in Ids : WF_vars(ServerHandle(c) /\ Unobserved)
    /\ \A e \in Endpoints :
         /\ WF_vars(HandlePeers(e) /\ Unobserved)
         /\ WF_vars(HandlePeerJoined(e) /\ Unobserved)
         /\ WF_vars(HandleOffer(e) /\ Unobserved)
         /\ WF_vars(HandleAnswer(e) /\ Unobserved)
    /\ \A e \in Endpoints : \A x \in Ids :
         /\ WF_vars(PeerSignal(e, x) /\ Unobserved)
         /\ WF_vars(PeerConnect(e, x) /\ Unobserved)

SpecDiscovery == Init /\ [][NextDiscovery]_vars /\ DiscoveryFairness

\* the session with the callbacks observed
NextNotify ==
    \/ \E e \in Endpoints : SocketConnect(e) /\ Silent
    \/ \E e \in Endpoints : SocketDrop(e) /\ Silent
    \/ \E c \in Ids : ServerDisconnect(c) /\ Silent
    \/ \E c \in Ids : ServerHandle(c) /\ Silent
    \/ \E e \in Endpoints : HandlePeers(e) /\ notified' = HandlePeersCalls(e)
    \/ \E e \in Endpoints : HandlePeerJoined(e) /\ notified' = HandlePeerJoinedCalls(e)
    \/ \E e \in Endpoints : HandlePeerLeft(e) /\ notified' = HandlePeerLeftCalls(e)
    \/ \E e \in Endpoints : HandleOffer(e) /\ notified' = HandleOfferCalls(e)
    \/ \E e \in Endpoints : HandleAnswer(e) /\ Silent
    \/ \E e \in Endpoints, x \in Ids : PeerSignal(e, x) /\ Silent
    \/ \E e \in Endpoints, x \in Ids : PeerConnect(e, x) /\ notified' = PeerConnectCalls(e, x)
    \/ \E e \in Endpoints, x \in Ids :
          TransportClose(e, x) /\ notified' = TransportCloseCalls(e, x)
    \/ \E e \in Endpoints : LeaveRoom(e) /\ Silent

SpecNotify == Init /\ [][NextNotify]_vars

\* two endpoints that stay connected, and a connection that sends one of them
\* an offer it was never announced for
NextOutsider ==
    \/ \E e \in Endpoints : SocketConnect(e) /\ Silent
    \/ \E c \in Ids : ServerHandle(c) /\ Silent
    \/ \E e \in Endpoints : HandlePeers(e) /\ notified' = HandlePeersCalls(e)
    \/ \E e \in Endpoints : HandlePeerJoined(e) /\ notified' = HandlePeerJoinedCalls(e)
    \/ \E e \in Endpoints : HandleOffer(e) /\ notified' = HandleOfferCalls(e)
    \/ \E e \in Endpoints : HandleAnswer(e) /\ Silent
    \/ \E e \in Endpoints, x \in Ids : PeerSignal(e, x) /\ Silent
    \/ \E e \in Endpoints, x \in Ids : PeerConnect(e, x) /\ notified' = PeerConnectCalls(e, x)
    \/ \E c \in Ids, target \in Ids : OutsiderOffer(c, target) /\ Silent

SpecOutsider == Init /\ [][NextOutsider]_vars

InitPairing == TransferInit /\ SessionInit /\ PairingInit /\ StoreIdle /\ CodeIdle /\ AppIdle

NextPairing == DeriveAB \/ DeriveBA

InitCodes ==
    /\ TransferInit
    /\ SessionInit
    /\ StoreIdle
    /\ CodeIdle
    /\ AppIdle
    /\ pairInput \in CodeNames \X CodeNames
    /\ pairCode = [ab |-> NoCode, ba |-> NoCode]

NextCodes ==
    \/ \E draw \in Draws : GenerateRoomCode(draw)
    \/ PairingRoomId
    \/ \E text \in TypedCodes : EnterCode(text)
    \/ ValidateCode

SpecCodes == InitCodes /\ [][NextCodes]_vars

NextText ==
    \/ \E hasRecipient \in BOOLEAN, blank \in BOOLEAN : HandleSendText(hasRecipient, blank)
    \/ \E sendThrows \in BOOLEAN : SendTextAttempt(sendThrows)
    \/ TextPeerClose

\* the 500 ms timer of the loop fires and the loop goes on
TextFairness == WF_vars(\E sendThrows \in BOOLEAN : SendTextAttempt(sendThrows))

SpecText == Init /\ [][NextText]_vars /\ TextFairness

\* an application named pairInput[1] that has paired with some of the names
InitAutoJoin ==
    /\ TransferInit
    /\ SessionInit
    /\ CodeIdle
    /\ AppIdle
    /\ pairInput \in AutoNames \X {<<>>}
    /\ pairCode = [ab |-> NoCode, ba |-> NoCode]
    /\ \E paired \in SUBSET AutoNames :
         LET names == SelectSeq(AutoNameSeq, LAMBDA n : n \in paired)
         IN  /\ localStorage = PairedWith(pairInput[1], names)
             /\ clock = Len(names)
    /\ storeCalls = 0

NextAutoJoin ==
    \/ \E roomId \in AutoRooms, name \in AutoNames : HandleRoomJoinRequest(roomId, name)
    \/ \E roomId \in TypedRooms : HandleRoomJoin(roomId)
    \/ HandleDisconnectDevice

SpecAutoJoin == InitAutoJoin /\ [][NextAutoJoin]_vars

SpecPairing == InitPairing /\ [][NextPairing]_vars

InitStore == TransferInit /\ SessionInit /\ PairingIdle /\ StoreInit /\ CodeIdle /\ AppIdle

NextStore ==
    \/ \E peerDeviceName \in StoreNames, roomId \in RoomIds, now \in {clock, clock + 1} :
          SavePairing(peerDeviceName, roomId, now)
    \/ \E peerDeviceName \in StoreNames : RemovePairing(peerDeviceName)

SpecStore == InitStore /\ [][NextStore]_vars

(***************************************************************************)
(* Properties of the chunked transfer                                      *)
(***************************************************************************)
\* the deliveries onFileReceived got for the session of transfer f
DeliveriesOf(f) == SelectSeq(received, LAMBDA o : o.sid = f)

\* what the application layer sees of a delivery
Visible(o) == [name |-> o.name, size |-> o.size, type |-> o.type,
               blob |-> o.blob, from |-> o.from]

\* every message of transfer f was sent and delivered, none was lost, and
\* no salvage timer cut the transfer short
FullyDelivered(f) ==
    /\ f <= Len(xfers)
    /\ xfers[f].status = "resolved"
    /\ \A j \in 1..Len(channel) : channel[j].f # f
    /\ linkUp
    /\ \A j \in 1..Len(received) : received[j].how = "immediate"

missingBytes(fd) == fd.metadata.fileSize - fd.receivedSize

missingChunks(fd) == fd.metadata.totalChunks - Len(fd.chunks)

SmallShortfall(fd) ==
    /\ missingBytes(fd) * 100 < fd.metadata.fileSize
    /\ missingChunks(fd) <= 2

\* the timer under name is armed for the session now stored under name and
\* no chunk was appended to that session since
SalvageCase(name) ==
    /\ fileTimeoutRefs[name].state = "armed"
    /\ MapHas(fileChunksRef, name)
    /\ MapGet(fileChunksRef, name).sid = fileTimeoutRefs[name].sid
    /\ Len(MapGet(fileChunksRef, name).chunks) = fileTimeoutRefs[name].len

\* C1: round trip. When the metadata and all chunks of the first transfer
\* were delivered in send order without loss, onFileReceived got exactly one
\* object for it, and its chunk sequence is the original buffer.
C1_RoundTrip ==
    (FullyDelivered(1) /\ early[1] = 0) =>
        /\ Len(DeliveriesOf(1)) = 1
        /\ DeliveriesOf(1)[1].blob = BufferOf(1, xfers[1].file.size)

\* C2: a session is completed immediately only if both the chunk count
\* reached totalChunks and the byte count is within 1 KiB of fileSize.
C2_ImmediateNeedsBoth ==
    \A j \in 1..Len(received) :
        received[j].how = "immediate" =>
            /\ Len(received[j].blob) >= received[j].totalChunks
            /\ Abs(received[j].receivedSize - received[j].size) <= sizeTolerance

\* C3: when a salvage timer fires for its unchanged session and the
\* shortfall is large, the session is discarded and nothing is delivered.
C3_LargeShortfallDiscards ==
    [][\A name \in FileNames :
          (/\ SalvageCase(name)
           /\ ~SmallShortfall(MapGet(fileChunksRef, name))
           /\ TimeoutFires(name))
          => (/\ received' = received
              /\ ~MapHas(fileChunksRef', name))]_vars

\* C4: when a salvage timer fires for its unchanged session and the
\* shortfall is small, onFileReceived is called once with the chunks
\* received so far, in arrival order, and the session is deleted.
C4_SmallShortfallCompletes ==
    [][\A name \in FileNames :
          (/\ SalvageCase(name)
           /\ SmallShortfall(MapGet(fileChunksRef, name))
           /\ TimeoutFires(name))
          => (/\ Len(received') = Len(received) + 1
              /\ SubSeq(received', 1, Len(received)) = received
              /\ received'[Len(received')].blob = MapGet(fileChunksRef, name).chunks
              /\ received'[Len(received')].sid = MapGet(fileChunksRef, name).sid
              /\ received'[Len(received')].name = name
              /\ ~MapHas(fileChunksRef', name)
              /\ fileTimeoutRefs'[name].state = "none")]_vars

\* C4 witness: a session was completed by its salvage timer while at most
\* 2 chunks and under 1% of the bytes were missing, and it is gone.
C4_Witness ==
    \E j \in 1..Len(received) :
        /\ received[j].how = "salvage"
        /\ (received[j].size - received[j].receivedSize) * 100 < received[j].size
        /\ received[j].totalChunks - Len(received[j].blob) \in 1..2
        /\ ~MapHas(fileChunksRef, received[j].name)

\* C5: once the transport has closed, no completion is emitted any more.
C5_NoCompletionAfterClose ==
    [][(~linkUp) => received' = received]_vars

\* the receiver before anything arrived
EmptyReceiver == [fc  |-> <<>>,
                  pc  |-> <<>>,
                  ft  |-> [n \in FileNames |-> NoTimer],
                  out |-> <<>>]

RECURSIVE RunChunks(_, _)
RunChunks(R, chunks) ==
    IF chunks = <<>> THEN R
    ELSE RunChunks(handleFileChunk(R, Head(chunks), deviceName), Tail(chunks))

\* the deliveries of transfer f when its metadata arrives first
MetadataFirst(f, file) ==
    RunChunks(handleFileMetadata(EmptyReceiver, MetadataOf(f, file)),
              BufferOf(f, file.size)).out

\* C6: delivering the first k >= 1 chunks before the metadata yields the
\* same single delivery as delivering the metadata first.
C6_PendingPathSameObject ==
    (FullyDelivered(1) /\ early[1] >= 1) =>
        /\ Len(DeliveriesOf(1)) = 1
        /\ Len(MetadataFirst(1, xfers[1].file)) = 1
        /\ Visible(DeliveriesOf(1)[1]) = Visible(MetadataFirst(1, xfers[1].file)[1])

(***************************************************************************)
(* Session properties                                                      *)
(***************************************************************************)
\* C7: for each remote id, between its discovery and the close of its
\* session (onPeerDisconnected), onPeerConnected is called at most once,
\* whatever 'peers', 'peer-joined', offer, transport 'connect' and relay
\* reconnect events reference the id.
C7_NotifyOnce ==
    \A e \in Endpoints : \A x \in Ids : notifyCount[e][x] <= 1

InRoom(e) ==
    /\ Connected(e)
    /\ TheRoom \in DOMAIN rooms
    /\ MyId(e) \in rooms[TheRoom]

\* C8: two endpoints that are members of the same room never both hold a
\* transport for each other created as initiator, and never both as
\* non-initiator.
C8_OneInitiatorPerPair ==
    \A e \in Endpoints : \A f \in Endpoints \ {e} :
        ( /\ InRoom(e)
          /\ InRoom(f)
          /\ peersRef[e][MyId(f)].exists
          /\ peersRef[f][MyId(e)].exists )
        => peersRef[e][MyId(f)].initiator # peersRef[f][MyId(e)].initiator

\* a connection of e was a member of the room when x joined it
WasThereFirst(e, x) ==
    \E s \in Ids : sockOwner[s] = e /\ <<s, x>> \in joinedBefore

\* x was a member of the room when a connection of e joined it
JoinedLater(e, x) ==
    \E s \in Ids : sockOwner[s] = e /\ <<x, s>> \in joinedBefore

\* C9: when an endpoint joins a room in which another is already a member,
\* the earlier member creates its transport for the pair as initiator and
\* the newly joined one creates its transport as non-initiator.
C9_EarlierMemberInitiates ==
    \A e \in Endpoints : \A x \in Ids :
        peersRef[e][x].exists =>
            /\ (WasThereFirst(e, x) /\ ~JoinedLater(e, x)) => peersRef[e][x].initiator
            /\ (JoinedLater(e, x) /\ ~WasThereFirst(e, x)) => ~peersRef[e][x].initiator

\* C9 as the code has it: the newly joined endpoint, which receives the
\* 'peers' list, creates its transport as initiator, and the earlier
\* member, which receives 'peer-joined', creates its transport as
\* non-initiator.
C9_JoinerInitiates ==
    \A e \in Endpoints : \A x \in Ids :
        peersRef[e][x].exists =>
            /\ peersRef[e][x].initiator => JoinedLater(e, x)
            /\ ~peersRef[e][x].initiator => WasThereFirst(e, x)
            /\ (WasThereFirst(e, x) /\ ~JoinedLater(e, x)) => ~peersRef[e][x].initiator
            /\ (JoinedLater(e, x) /\ ~WasThereFirst(e, x)) => peersRef[e][x].initiator

C9_Witness ==
    \E e \in Endpoints : \E f \in Endpoints \ {e} : \E x \in Ids : \E y \in Ids :
        /\ sockOwner[x] = f
        /\ sockOwner[y] = e
        /\ <<y, x>> \in joinedBefore
        /\ <<x, y>> \notin joinedBefore
        /\ peersRef[e][x].exists /\ ~peersRef[e][x].initiator
        /\ peersRef[f][y].exists /\ peersRef[f][y].initiator

\* the id is discovered, handshaking or connected at endpoint e
Known(e, x) == peersRef[e][x].exists \/ x \in notifiedPeersRef[e]

\* C10: a 'peer-joined' event for an id that is already discovered,
\* handshaking or connected calls onPeerConnected for nobody, creates no
\* transport and leaves the transports, the notify guard and the connected
\* set as they were.
C10_DuplicatePeerJoinedNoOp ==
    [][\A e \in Endpoints :
         (HandlePeerJoined(e) /\ Known(e, Head(inbox[MyId(e)]).id)) =>
            /\ peersRef' = peersRef
            /\ notifiedPeersRef' = notifiedPeersRef
            /\ connectedPeersRef' = connectedPeersRef
            /\ notifyCount' = notifyCount]_vars

Events(sent, t, kind) == {i \in DOMAIN sent[t] : sent[t][i].t = kind}

RelayUnchanged ==
    /\ rooms' = rooms
    /\ deviceInfo' = deviceInfo
    /\ deviceSubscriptions' = deviceSubscriptions

\* C12: a join with display name N sends one room-join-request (roomId, N,
\* joiner id) to each live connection subscribed to N other than the
\* joiner, and to no other connection; a join without a name sends none.
C12_TargetedWakeUp ==
    [][\A c \in Ids : \A roomId \in WireRooms : \A dn \in WireNames :
         (Events(emitted', c, "peers") # {} /\ WireJoin(c, roomId, dn)) =>
            \A t \in Ids :
                LET due == /\ dn # ""
                           /\ t \in SetAt(deviceSubscriptions, dn)
                           /\ t \in sockets
                           /\ t # c
                IN  /\ Cardinality(Events(emitted', t, "room-join-request"))
                         = IF due THEN 1 ELSE 0
                    /\ \A i \in Events(emitted', t, "room-join-request") :
                         emitted'[t][i] = Msg("room-join-request", c, dn, roomId, {})]_vars

C12_Witness ==
    \E t \in sockets : \E u \in sockets \ {t} :
        /\ Events(emitted, t, "room-join-request") # {}
        /\ Events(emitted, u, "room-join-request") = {}
        /\ Events(emitted, u, "peers") = {}

\* C13: a join by c to room R adds c to rooms[R], sends c one member list
\* that is exactly the other members of R with their recorded names, and
\* sends peer-joined (c's id and name) to exactly the other members of R.
C13_JoinOutcome ==
    [][\A c \in Ids : \A roomId \in WireRooms : \A dn \in WireNames :
         WireJoin(c, roomId, dn) =>
            /\ roomId \in DOMAIN rooms'
            /\ c \in rooms'[roomId]
            /\ emitted'[c] = <<Msg("peers", 0, "", "",
                   {[peerId |-> q, deviceName |-> InfoName(deviceInfo', q)] :
                       q \in rooms'[roomId] \ {c}})>>
            /\ \A t \in Ids \ {c} :
                 /\ Cardinality(Events(emitted', t, "peer-joined"))
                      = IF t \in rooms'[roomId] THEN 1 ELSE 0
                 /\ \A i \in Events(emitted', t, "peer-joined") :
                      emitted'[t][i] =
                         Msg("peer-joined", c, InfoName(deviceInfo', c), "", {})]_vars

\* C14: after the disconnect of c, c is in no room, has no deviceInfo
\* entry and is in no subscription set, and every other member of a room c
\* was in was sent a peer-left for c; the disconnect of a connection that
\* is in none of the maps changes none of them and sends nothing.
C14_DisconnectCleanup ==
    [][\A c \in Ids :
         (c \in sockets /\ c \notin sockets' /\ WireDisconnect(c)) =>
            /\ \A r \in DOMAIN rooms' : c \notin rooms'[r]
            /\ c \notin DOMAIN deviceInfo'
            /\ \A n \in DOMAIN deviceSubscriptions' : c \notin deviceSubscriptions'[n]
            /\ \A r \in DOMAIN rooms : c \in rooms[r] =>
                 \A t \in rooms[r] \ {c} :
                    \E i \in Events(emitted', t, "peer-left") :
                        emitted'[t][i] = Msg("peer-left", c, "", "", {})
            /\ ( /\ \A r \in DOMAIN rooms : c \notin rooms[r]
                 /\ c \notin DOMAIN deviceInfo
                 /\ \A n \in DOMAIN deviceSubscriptions : c \notin deviceSubscriptions[n] )
               => (RelayUnchanged /\ emitted' = NoOutput)]_vars

C14_Witness ==
    \E t \in sockets : \E i \in DOMAIN emitted[t] :
        /\ emitted[t][i].t = "peer-left"
        /\ emitted[t][i].id \notin sockets
        /\ emitted[t][i].id \notin DOMAIN deviceInfo

\* C15: the rooms map holds no room with an empty member set, and every
\* member of a room is a live connection.
C15_RoomsCollected ==
    \A r \in DOMAIN rooms : rooms[r] # {} /\ rooms[r] \subseteq sockets

\* a live connection whose recorded room no longer exists
C15_Witness ==
    \E c \in sockets :
        /\ c \in DOMAIN deviceInfo
        /\ deviceInfo[c].roomId \notin DOMAIN rooms
        /\ \E d \in Ids \ sockets : sockOwner[d] # "-"

\* C16: a join-room message without a roomId changes none of the relay's
\* maps and causes no event to be sent to any connection.
C16_MalformedJoinIgnored ==
    [][\A c \in Ids : \A dn \in WireNames :
         WireJoin(c, NoRoomId, dn) => (RelayUnchanged /\ emitted' = NoOutput)]_vars

LiveSids == {SidOf(i) : i \in sockets}

\* C17: an offer, answer or ice-candidate whose target is not the id of a
\* live connection is delivered to no connection and changes none of the
\* relay's maps.
C17_UnknownTargetNoOp ==
    [][\A c \in Ids : \A kind \in HandshakeKinds : \A target \in WireTargets \ LiveSids :
       \A dn \in WireNames : \A payload \in HandshakePayloads :
         WireHandshake(c, kind, target, dn, payload) =>
            (RelayUnchanged /\ emitted' = NoOutput)]_vars

\* C18: an offer, answer or ice-candidate sent by c to the id of another
\* live connection x is delivered to x and to nobody else, once, with its
\* payload, c's id and, for an offer, c's name (from the message, else the
\* recorded one); the relay's maps are unchanged.
C18_HandshakeForwarding ==
    [][\A c \in Ids : \A kind \in HandshakeKinds : \A x \in sockets \ {c} :
       \A dn \in WireNames : \A payload \in HandshakePayloads :
         WireHandshake(c, kind, SidOf(x), dn, payload) =>
            /\ RelayUnchanged
            /\ emitted' =
                 [t \in Ids |->
                    IF t = x
                    THEN <<[Msg(kind, c,
                                IF kind # "offer" THEN ""
                                ELSE IF dn # "" THEN dn
                                ELSE InfoName(deviceInfo, c),
                                "", {}) EXCEPT !.payload = payload]>>
                    ELSE <<>>]]_vars

(***************************************************************************)
(* Discovery                                                               *)
(***************************************************************************)
BothJoined == \A e \in Endpoints : InRoom(e)

\* endpoint e was notified of the other endpoint's connection and holds a
\* transport for it
Discovered(e) ==
    \A f \in Endpoints \ {e} :
        /\ Connected(f)
        /\ notifyCount[e][MyId(f)] >= 1
        /\ peersRef[e][MyId(f)].exists

\* C19: when both endpoints have joined the same room and stay connected
\* to the relay, eventually each has had its onPeerConnected call for the
\* other and each holds a transport for the other.
C19_DiscoveryLive == BothJoined ~> (\A e \in Endpoints : Discovered(e))

C19_Witness ==
    /\ BothJoined
    /\ \A e \in Endpoints : Discovered(e)
    /\ \E e \in Endpoints : \E x \in Ids : peersRef[e][x].stage = "connected"

(***************************************************************************)
(* Pairing properties                                                      *)
(***************************************************************************)
\* C20: the derived code is symmetric: generatePairingRoomId(A, B) equals
\* generatePairingRoomId(B, A) for every pair of display names.
C20_DerivedCodeSymmetric ==
    (pairCode.ab # NoCode /\ pairCode.ba # NoCode) => pairCode.ab = pairCode.ba

C20_Witness ==
    /\ pairCode.ab # NoCode
    /\ pairCode.ba # NoCode
    /\ pairInput = <<SwiftMoth, BoldTiger>>
    /\ generatePairingRoomId(BoldTiger, BoldTiger) # pairCode.ab

(***************************************************************************)
(* Pairing history properties                                              *)
(***************************************************************************)
RecordsOf(stored, peerDeviceName) ==
    {i \in 1..Len(stored) : stored[i].deviceName = peerDeviceName}

\* C21: the stored history has at most one record per remote name; the first
\* savePairing for a name stores connectionCount 1, and each later one for
\* the same name adds exactly 1 to its count and replaces its room id and
\* timestamp.
C21_UniqueAndCounted ==
    /\ [](\A n \in RemoteNameSet : Cardinality(RecordsOf(localStorage, n)) <= 1)
    /\ [][\A n \in StoreNames, r \in RoomIds, t \in {clock, clock + 1} :
            SavePairing(n, r, t) =>
                \E i \in RecordsOf(localStorage', n) :
                    localStorage'[i] =
                        PairingRecord(n, r, t,
                            IF RecordsOf(localStorage, n) = {} THEN 1
                            ELSE localStorage[CHOOSE j \in RecordsOf(localStorage, n) : TRUE]
                                     .connectionCount + 1)]_vars

\* C22: the stored history has at most 10 records and they are the most
\* recently used ones: a savePairing for a new name when 10 records exist
\* stores the new record and drops the least recently used one.
C22_KeepsMostRecent ==
    /\ [](Len(localStorage) <= HistoryLimit)
    /\ [][\A n \in StoreNames, r \in RoomIds, t \in {clock, clock + 1} :
            (Len(localStorage) = HistoryLimit /\ RecordsOf(localStorage, n) = {}
                /\ SavePairing(n, r, t)) =>
                /\ RecordsOf(localStorage', n) # {}
                /\ \A i \in 1..Len(localStorage) :
                      RecordsOf(localStorage', localStorage[i].deviceName) = {} =>
                          \A j \in 1..Len(localStorage) :
                              localStorage[i].lastConnected <= localStorage[j].lastConnected]_vars

(***************************************************************************)
(* Sender properties                                                       *)
(***************************************************************************)
\* the sendData calls of transfer f, in order
CallsOf(f) == SelectSeq(sendLog, LAMBDA call : call.f = f)

\* C23: if the metadata send of a sendFile call fails, the call rejects
\* with an error and hands no chunk to sendData.
C23_NoChunksWithoutMetadata ==
    \A f \in 1..Len(xfers) :
        (CallsOf(f) # <<>> /\ ~CallsOf(f)[1].ok) =>
            /\ Len(CallsOf(f)) = 1
            /\ xfers[f].status = "rejectedMetadata"
            /\ sendErrors[f] = MetadataError

\* a metadata send failed on a connected transport, for a file with chunks
C23_Witness ==
    \E f \in 1..Len(xfers) :
        /\ linkUp
        /\ ~CallsOf(f)[1].ok
        /\ totalChunksOf(xfers[f].file.size) > 1
        /\ ~Active

\* C24: after the metadata, chunks go to sendData in increasing index order
\* 0, 1, 2, ...; when the send of chunk i fails the call rejects with an
\* error naming chunk i and no later chunk is sent.
C24_InOrderUntilFirstFailure ==
    \A f \in 1..Len(xfers) :
        LET calls == CallsOf(f)
        IN  /\ \A k \in 1..Len(calls) : calls[k].chunkIndex = k - 2
            /\ Len(calls) <= totalChunksOf(xfers[f].file.size) + 1
            /\ \A k \in 2..Len(calls) :
                 ~calls[k].ok =>
                    /\ k = Len(calls)
                    /\ xfers[f].status = "rejectedChunk"
                    /\ sendErrors[f] = ChunkError(calls[k].chunkIndex,
                                                  totalChunksOf(xfers[f].file.size))
            /\ xfers[f].status = "resolved" =>
                 /\ Len(calls) = totalChunksOf(xfers[f].file.size) + 1
                 /\ \A k \in 1..Len(calls) : calls[k].ok

\* the send of a middle chunk failed on a connected transport
C24_Witness ==
    \E f \in 1..Len(xfers) :
        /\ linkUp
        /\ xfers[f].status = "rejectedChunk"
        /\ Len(CallsOf(f)) = 3
        /\ totalChunksOf(xfers[f].file.size) > 2
        /\ Len(xfers) > f

(***************************************************************************)
(* Notification properties                                                 *)
(***************************************************************************)
\* C25: when the transport for id X closes, or the room is left (by the
\* endpoint's own leaveRoom, or by X as told by peer-left), the notify-guard
\* entry and the cached display name for X are cleared.
C25_ClosingClearsGuard ==
    [][\A e \in Endpoints, x \in Ids :
          (/\ x \in notifiedPeersRef[e]
           /\ \/ TransportClose(e, x)
              \/ HeadIs(e, "peer-left") /\ Head(inbox[MyId(e)]).id = x /\ HandlePeerLeft(e)
              \/ LeaveRoom(e))
          => /\ x \notin notifiedPeersRef'[e]
             /\ peerDeviceNamesRef'[e][x] = ""]_vars

\* C26: when the transport for id X reports connect and X is not in the
\* notify guard, onPeerConnected(X, cached display name of X) is called once
\* and X is added to the guard; when X is in the guard, nothing is called.
C26_ConnectFallback ==
    [][\A e \in Endpoints, x \in Ids :
          (peersRef[e][x].stage = "answered" /\ PeerConnect(e, x)) =>
              IF x \notin notifiedPeersRef[e]
              THEN /\ notified' = <<PeerConnectedCall(e, x, peerDeviceNamesRef[e][x])>>
                   /\ x \in notifiedPeersRef'[e]
              ELSE /\ notified' = <<>>
                   /\ notifiedPeersRef'[e] = notifiedPeersRef[e]]_vars

\* the connect handler has just notified: no socket handler runs at an
\* endpoint whose socket is down
C26_Witness ==
    \E e \in Endpoints, x \in Ids :
        /\ ~Connected(e)
        /\ peersRef[e][x].stage = "connected"
        /\ notified = <<PeerConnectedCall(e, x, peerDeviceNamesRef[e][x])>>
        /\ peerDeviceNamesRef[e][x] # ""

\* the offer at the head of e's inbox is the first signal e has about its
\* sender: the sender never joined a room, so e has seen it in no 'peers'
\* list and no 'peer-joined'
OfferIsFirstSignal(e) ==
    /\ HeadIs(e, "offer")
    /\ sockOwner[Head(inbox[MyId(e)]).id] = "outsider"
    /\ ~peersRef[e][Head(inbox[MyId(e)]).id].exists
    /\ Head(inbox[MyId(e)]).id \notin notifiedPeersRef[e]

\* C27: an inbound offer from id X that is the first signal about X is not
\* lost: the endpoint takes it into a transport for X (so that it is
\* answered) and X is discovered with one onPeerConnected.
C27_OfferFirstNotLost ==
    [][\A e \in Endpoints :
          (OfferIsFirstSignal(e) /\ HandleOffer(e)) =>
              LET x == Head(inbox[MyId(e)]).id
              IN  /\ peersRef'[e][x].exists
                  /\ peersRef'[e][x].stage = "gotOffer"
                  /\ x \in notifiedPeersRef'[e]
                  /\ notified' = <<PeerConnectedCall(e, x, Head(inbox[MyId(e)]).name)>>]_vars

\* C28: for one departure of a discovered peer X, onPeerDisconnected(X) is
\* called at most once.
C28_GoneNotifiedOnce ==
    \A e \in Endpoints, x \in Ids :
        Cardinality({k \in 1..Len(notified) : notified[k] = PeerDisconnectedCall(e, x)}) <= 1



\* every message sent so far was delivered, none ahead of its metadata and
\* none lost
AllDeliveredInOrder ==
    /\ linkUp
    /\ channel = <<>>
    /\ \A f \in 1..MaxTransfers : early[f] = 0
    /\ \A f \in 1..Len(xfers) : xfers[f].status = "resolved"

\* the last transfer was handed to onFileReceived
LastTransferCompleted ==
    /\ Len(xfers) > 0
    /\ \E k \in 1..Len(received) : received[k].sid = Len(xfers)

\* C29: whenever every message of all transfers sent so far has been
\* delivered in order and the last transfer has completed, the pending
\* chunk buffer is empty.
C29_PendingEmptyBetweenTransfers ==
    (AllDeliveredInOrder /\ LastTransferCompleted) => pendingChunksRef = <<>>


(***************************************************************************)
(* Chunk routing with a session left over from an earlier transfer         *)
(***************************************************************************)
\* an earlier transfer (numbered 0) whose only chunk outran its metadata:
\* handleFileMetadata creates the session with the chunk in it
StuckBefore(file) ==
    handleFileMetadata(
        handleFileChunk(EmptyReceiver, ChunkOf(0, file.size, 0), deviceName),
        MetadataOf(0, file))

\* an earlier transfer (numbered 0) that sendFile gave up after its first
\* chunk: the session is short of its chunks and its timer is armed
AbortedBefore(file) ==
    handleFileChunk(
        handleFileMetadata(EmptyReceiver, MetadataOf(0, file)),
        ChunkOf(0, file.size, 0), deviceName)

PriorReceivers ==
    { StuckBefore([name |-> "a.txt", size |-> 1000, type |-> "text/plain"]),
      AbortedBefore([name |-> "a.txt",
                     size |-> MaxFullChunks * CHUNK_SIZE + 1100,
                     type |-> "text/plain"]) }

InitRouting ==
    /\ xfers = <<>>
    /\ sendLog = <<>>
    /\ sendErrors = <<>>
    /\ channel = <<>>
    /\ linkUp = TRUE
    /\ early = [f \in 1..MaxTransfers |-> 0]
    /\ \E R \in PriorReceivers :
          /\ fileChunksRef = R.fc
          /\ pendingChunksRef = R.pc
          /\ fileTimeoutRefs = R.ft
          /\ received = R.out
    /\ SessionInit
    /\ PairingIdle
    /\ StoreIdle
    /\ CodeIdle
    /\ AppIdle

\* the files sent after that: at most two chunks long
RoutingFiles == {file \in Files : totalChunksOf(file.size) <= 2}

NextRouting ==
    \/ \E file \in RoutingFiles : SendFileStart(file, FALSE)
    \/ SendFileStep(FALSE)
    \/ Deliver
    \/ DeliverChunkBeforeMetadata
    \/ \E name \in FileNames : TimeoutFires(name)

SpecRouting == InitRouting /\ [][NextRouting]_vars

\* the sessions whose chunk count is below their declared total
OpenSessions(fc) ==
    {i \in 1..Len(fc) : Len(fc[i].chunks) < fc[i].metadata.totalChunks}

\* the most recently created of them (sessions are numbered as created)
MostRecentOpen(fc) ==
    CHOOSE i \in OpenSessions(fc) : \A j \in OpenSessions(fc) : fc[j].sid <= fc[i].sid

\* this step appended the chunk to session fd (which may have completed)
AppendedTo(fd, chunk) ==
    \/ \E i \in 1..Len(fileChunksRef') :
          /\ fileChunksRef'[i].sid = fd.sid
          /\ fileChunksRef'[i].chunks = Append(fd.chunks, chunk)
    \/ /\ Len(received') = Len(received) + 1
       /\ received'[Len(received')].sid = fd.sid
       /\ received'[Len(received')].blob = Append(fd.chunks, chunk)

RoutedAsSpecified(chunk) ==
    IF OpenSessions(fileChunksRef) # {}
    THEN /\ AppendedTo(fileChunksRef[MostRecentOpen(fileChunksRef)], chunk)
         /\ pendingChunksRef' = pendingChunksRef
    ELSE /\ pendingChunksRef' = Append(pendingChunksRef, chunk)
         /\ fileChunksRef' = fileChunksRef

\* C30: a chunk is appended to the most recently created session whose chunk
\* count is below its declared totalChunks whenever there is one, and goes
\* to the pending buffer only when there is none.
C30_ChunkRouting ==
    [][/\ (channel # <<>> /\ ~IsMetadata(Head(channel)) /\ Deliver)
          => RoutedAsSpecified(Head(channel))
       /\ (Len(channel) >= 2 /\ DeliverChunkBeforeMetadata)
          => RoutedAsSpecified(channel[2])]_vars


\* this step handed a file to onFileReceived
Completes == Len(received') = Len(received) + 1

\* the session that completed in this step, as it was before the step
CompletedSession ==
    fileChunksRef[CHOOSE i \in 1..Len(fileChunksRef) :
                      fileChunksRef[i].sid = received'[Len(received')].sid]

TimerOfSameSession(name) ==
    /\ MapHas(fileChunksRef, name)
    /\ MapGet(fileChunksRef, name).sid = fileTimeoutRefs[name].sid
    /\ Len(MapGet(fileChunksRef, name).chunks) = fileTimeoutRefs[name].len

\* C32: a salvage timer acts only on the session it was armed for, and only
\* if no chunk was appended to that session since it was armed; it never
\* completes or discards another session, also not one re-created under the
\* same file name.  (At most one timer per session is armed at any time.)
C32_TimerActsOnOwnSession ==
    [][\A name \in FileNames :
          (/\ fileTimeoutRefs[name].state = "armed"
           /\ TimeoutFires(name)
           /\ (fileChunksRef' # fileChunksRef \/ received' # received))
          => TimerOfSameSession(name)]_vars


(***************************************************************************)
(* The reference derivation of the pairing code                            *)
(***************************************************************************)
\* h := 31 * h + charCode, wrapped to 32 bits
foldStep(h, charCode) ==
    LET lo == 31 * h.lo + charCode
        hi == 31 * h.hi + (lo \div Half)
    IN  [hi |-> hi % Half, lo |-> lo % Half]

RECURSIVE fold(_, _)
fold(h, str) ==
    IF str = <<>> THEN h ELSE fold(foldStep(h, Head(str)), Tail(str))

\* the smaller and the larger of two names, joined with '-'
joined(a, b) == IF StrLess(a, b) THEN a \o <<45>> \o b ELSE b \o <<45>> \o a

\* |h| of the signed value: 2^32 - h for the upper half of the range
magnitude(h) ==
    IF h.hi < Half \div 2 THEN h
    ELSE LET lo == (Half - h.lo) % Half
             hi == (2 * Half - 1 - h.hi + (IF h.lo = 0 THEN 1 ELSE 0)) % Half
         IN  [hi |-> hi, lo |-> lo]

\* floor(h / 10^n)
RECURSIVE quotient10(_, _)
quotient10(h, n) ==
    IF n = 0 THEN h
    ELSE LET t == (h.hi % 10) * Half + h.lo
         IN  quotient10([hi |-> h.hi \div 10, lo |-> t \div 10], n - 1)

\* the decimal digit of weight 10^k
digitAt(h, k) ==
    LET q == quotient10(h, k)
    IN  ((q.hi % 10) * (Half % 10) + q.lo) % 10

\* the decimal digits of a value below 2^32, most significant first, without
\* leading zeros
decimal(h) ==
    LET used  == {k \in 0..9 : digitAt(h, k) # 0}
        width == IF used = {} THEN 1
                 ELSE 1 + CHOOSE k \in used : \A j \in used : j <= k
    IN  [i \in 1..width |-> digitAt(h, width - i)]

\* left-padded with '0' to 6 digits, first 6 digits kept
referenceCode(a, b) ==
    LET d == decimal(magnitude(fold([hi |-> 0, lo |-> 0], joined(a, b))))
        padded == IF Len(d) >= 6 THEN d ELSE [i \in 1..6 |-> IF i <= 6 - Len(d) THEN 0 ELSE d[i - (6 - Len(d))]]
    IN  [i \in 1..6 |-> padded[i]]

\* C33: generatePairingRoomId(A, B) equals the reference: the names sorted
\* and joined with '-', folded with h := 31*h + charCode wrapped to 32 bits,
\* the absolute value in decimal, left-padded to 6 digits and cut to 6; the
\* same inputs give the same code every time.
C33_MatchesReferenceHash ==
    /\ pairCode.ab # NoCode => pairCode.ab = referenceCode(pairInput[1], pairInput[2])
    /\ pairCode.ba # NoCode => pairCode.ba = referenceCode(pairInput[2], pairInput[1])
    /\ (pairCode.ab # NoCode /\ pairCode.ba # NoCode /\ pairInput[1] = pairInput[2])
       => pairCode.ab = pairCode.ba

\* a pair whose hash wraps to a negative value of more than 6 digits
C33_Witness ==
    /\ pairCode.ab # NoCode
    /\ hashOf([hi |-> 0, lo |-> 0], combined(pairInput[1], pairInput[2])).hi >= Half \div 2
    /\ Len(digitsOf(absOf(hashOf([hi |-> 0, lo |-> 0],
                                 combined(pairInput[1], pairInput[2]))))) > 6
    /\ pairCode.ab = referenceCode(pairInput[1], pairInput[2])


\* exactly 6 ASCII digits between leading and trailing white space
SixDigitsTrimmed(str) ==
    \E i \in 1..(Len(str) + 1) :
        /\ i + 5 <= Len(str)
        /\ \A k \in 1..(i - 1) : str[k] \in WhiteSpace
        /\ \A k \in i..(i + 5) : str[k] >= 48 /\ str[k] <= 57
        /\ \A k \in (i + 6)..Len(str) : str[k] \in WhiteSpace

\* C34: every code returned by generateRoomCode (for any draw in [0,1)) and
\* by generatePairingRoomId (for any two names, also when the hash is
\* -2^31) is exactly 6 decimal digits and is accepted by isValidRoomCode;
\* isValidRoomCode accepts a string iff, trimmed of white space, it is
\* exactly 6 ASCII digits.
C34_GeneratedCodesValid ==
    /\ roomCode.by \in {"random", "pairing"} =>
          /\ Len(roomCode.text) = 6
          /\ \A i \in 1..Len(roomCode.text) : roomCode.text[i] \in 48..57
          /\ codeValid # "false"
    /\ codeValid # Unchecked => (codeValid = "true" <=> SixDigitsTrimmed(roomCode.text))

\* the code derived from a hash of -2^31 was accepted
C34_Witness ==
    /\ roomCode.by = "pairing"
    /\ hashOf([hi |-> 0, lo |-> 0], combined(pairInput[1], pairInput[2]))
          = [hi |-> Half \div 2, lo |-> 0]
    /\ roomCode.text = <<50, 49, 52, 55, 52, 56>>
    /\ codeValid = "true"


\* C35: handleSendText always terminates; it calls sendData at most 20
\* times, returns true at the first call that succeeds without sending
\* again, and after 20 consecutive failures returns false and reports the
\* failure to the user.
C35_BoundedTextRetry ==
    /\ [](textSend.calls <= maxAttempts)
    /\ [](textSend.result = "true" =>
             textSend.lastCall = "true" /\ textSend.calls = textSend.attempts + 1)
    /\ [](textSend.lastCall = "true" => textSend.status = "returned" /\ textSend.result = "true")
    /\ []((textSend.status = "sending" /\ textSend.attempts = maxAttempts - 1) =>
             textSend.calls = maxAttempts - 1)
    /\ []((textSend.calls = maxAttempts /\ textSend.lastCall = "false") =>
             textSend.status = "returned" /\ textSend.result = "false" /\ textSend.reported)
    /\ [][textSend.status = "returned" /\ textSend'.texts = textSend.texts
             => textSend' = textSend]_vars
    /\ (textSend.status = "sending") ~> (textSend.status = "returned")

\* 20 failed calls, then false returned and the failure reported
C35_Witness ==
    /\ textSend.status = "returned"
    /\ textSend.calls = maxAttempts
    /\ textSend.result = "false"
    /\ textSend.reported


\* this step sent chunk chunkIndex of transfer f
SentChunk(f, chunkIndex) ==
    /\ Len(sendLog') = Len(sendLog) + 1
    /\ sendLog'[Len(sendLog')] = SendCall(f, chunkIndex, TRUE)

\* C36: during sendFile a progress callback (fileName, percentComplete,
\* "sending") is emitted after every chunk sent, percentComplete not
\* decreasing and 100 after the last chunk.
C36_SendingProgress ==
    [][\A f \in 1..Len(xfers) :
          \A chunkIndex \in 0..(totalChunksOf(xfers[f].file.size) - 1) :
              SentChunk(f, chunkIndex) =>
                 /\ Len(progress') = Len(progress) + 1
                 /\ progress'[Len(progress')].fileName = xfers[f].file.name
                 /\ progress'[Len(progress')].variant = "sending"
                 /\ (chunkIndex > 0 =>
                        /\ progress # <<>>
                        /\ progress'[Len(progress')].percentComplete
                              >= progress[Len(progress)].percentComplete)
                 /\ (chunkIndex = totalChunksOf(xfers[f].file.size) - 1 =>
                        progress'[Len(progress')].percentComplete = 100)]_vars


\* C37: onFileReceived is called at most once for every session, over any
\* sequence of chunk arrivals and timer firings: a session completed
\* immediately is not completed again by a timer, and a session completed
\* by salvage is not completed again by a late chunk.
C37_AtMostOneDelivery ==
    \A i \in 1..Len(received) : \A j \in 1..Len(received) :
        received[i].sid = received[j].sid => i = j

\* a session was completed by its salvage timer and a chunk of that
\* transfer arrived afterwards
C37_Witness ==
    \E k \in 1..Len(received) :
        /\ received[k].how = "salvage"
        /\ \E c \in 1..Len(pendingChunksRef) :
              /\ pendingChunksRef[c].f = received[k].sid
              /\ pendingChunksRef[c].i >= Len(received[k].blob)

\* C38: every deviceInfo record {c, name, roomId} names a room of the rooms
\* map that has c as a member; in particular, once c has left room R no
\* record names R as c's room.
C38_RecordAgreesWithRooms ==
    \A c \in DOMAIN deviceInfo : c \in SetAt(rooms, deviceInfo[c].roomId)

\* C39: a leave-room or disconnect of connection c sends peer-left for c to
\* a connection t only if c and t were both members of the room (of some
\* room, for a disconnect) immediately before; a leave-room for a room c is
\* not a member of sends nothing and changes none of the relay's maps.
C39_PeerLeftOnlyForMembers ==
    [][\A c \in Ids :
         /\ \A roomId \in WireRooms :
              WireLeave(c, roomId) =>
                 /\ \A t \in Ids :
                      Events(emitted', t, "peer-left") # {} =>
                         {c, t} \subseteq SetAt(rooms, roomId)
                 /\ c \notin SetAt(rooms, roomId) =>
                      (RelayUnchanged /\ emitted' = NoOutput)
         /\ (c \in sockets /\ c \notin sockets' /\ WireDisconnect(c)) =>
              \A t \in Ids :
                 Events(emitted', t, "peer-left") # {} =>
                    \E r \in DOMAIN rooms : {c, t} \subseteq rooms[r]]_vars

\* the request names a recent device other than the application itself and
\* the room of the pair, while the application is in no other room
AutoJoinAllowed(roomId, name) ==
    /\ currentRoomId = NoRoom \/ currentRoomId = roomId
    /\ name # pairInput[1]
    /\ \E i \in 1..Len(localStorage) : localStorage[i].deviceName = name
    /\ roomId = generatePairingRoomId(pairInput[1], name)

\* C40: on a room-join-request {roomId, deviceName} the application joins
\* roomId only if it is in no other room, deviceName is not its own name,
\* deviceName is in its pairing history and roomId is
\* generatePairingRoomId(own name, deviceName); any other request changes
\* neither currentRoomId nor calls joinRoom, and a request that does join
\* sets currentRoomId to roomId and calls joinRoom(roomId) once.
C40_AutoJoinRestricted ==
    [][\A roomId \in AutoRooms : \A name \in AutoNames :
         HandleRoomJoinRequest(roomId, name) =>
            /\ ~AutoJoinAllowed(roomId, name) =>
                 (currentRoomId' = currentRoomId /\ joinRoomCalls' = joinRoomCalls)
            /\ (currentRoomId' # currentRoomId \/ joinRoomCalls' # joinRoomCalls) =>
                 /\ AutoJoinAllowed(roomId, name)
                 /\ currentRoomId' = roomId
                 /\ joinRoomCalls' =
                      Append(joinRoomCalls, JoinRoomCall(roomId, "room-join-request"))]_vars

\* the application joined the room of a recent device on a request and is in
\* it, with no joinRoom call but that one
C40_Witness ==
    /\ joinRoomCalls = <<JoinRoomCall(currentRoomId, "room-join-request")>>
    /\ currentRoomId # NoRoom
    /\ \E i \in 1..Len(localStorage) :
         /\ localStorage[i].deviceName # pairInput[1]
         /\ currentRoomId = generatePairingRoomId(pairInput[1], localStorage[i].deviceName)
         /\ localStorage[i].roomId = currentRoomId

====
